---------------------------- MODULE Spec2Model ----------------------------
(***************************************************************************)
(* A model of the audio engine of this repository.  The repository holds   *)
(* three generations of the same engine:                                   *)
(*                                                                         *)
(*   "Audio"        namespace Audio   (src/unnamed/part_000, 549-1173)      *)
(*   "Juke"         namespace Juke    (src/unnamed/part_000, 1-484)         *)
(*   "AudioSystem"  namespace AudioSystem (src/AudioSystem.cpp)             *)
(*                                                                         *)
(* A behaviour of the model is the life of one process that links one of   *)
(* the three (variable variant, fixed by Init).  The control context calls  *)
(* the engine's functions; the render context is the PortAudio callback,    *)
(* which runs on its own thread with no synchronisation and is therefore    *)
(* interleaved with the control calls at the grain of one output frame.     *)
(*                                                                         *)
(* A sample buffer is known by whether it is allocated, by its length and   *)
(* by the one amplitude all its floats have.  Amplitudes, volumes and pans  *)
(* are in hundredths.  The output buffer is followed for namespace Audio    *)
(* only.                                                                    *)
(***************************************************************************)
EXTENDS Integers, Sequences, FiniteSets

(***************************************************************************)
(* Bounds of the model.                                                    *)
(***************************************************************************)
\* Audio::Properties::maxSampleCount and maxClipCount, which the caller of
\* Audio::Initialize chooses.
maxSampleCount == 1
maxClipCount == 2
\* The clip pool of the process that also calls the setters (SpecAudioClip).
OneClip == 1
\* framesPerBuffer of one callback (Audio::Properties::bufferSize; 256 in the
\* two older engines), scaled down.
bufferSize == 2
\* framesPerBuffer of the process that plays loud files (SpecAudioMix).
OneFrame == 1
\* The clip pool of the process that recycles handles (SpecAudioPool).
PoolClips == 3
\* The length of the files handed to CreateSample / Load, in frames.
MaxFrames == 1
\* The length of the files of the process that positions a clip
\* (SpecAudioPosition).
QuarterFrames == 4
\* The length of the longer files the process with one clip also loads.
LongFrames == 2
\* The free-lists are std::queue and grow with every release; the model stops
\* releasing once a queue holds this many ids more than the pool has.
ExtraReleases == 1

\* MAX_SAMPLE_COUNT and MAX_CLIP_COUNT of the two older engines (2048 in the
\* program), scaled down: the pools have the indices 0..MAX-1.
MAX_SAMPLE_COUNT == 2
MAX_CLIP_COUNT == 3
\* How many AudioSampleData and AudioClipData objects the process allocates in
\* its life.  The model never reuses an address, so that a pointer to a
\* deleted object stays recognisable.
MaxSampleObjects == 1
MaxClipObjects == 2
\* Juke::Play counts every call in clipsInFlight; the model stops calling it
\* once the counter, read as a signed number, has reached this value.
MaxInFlight == 2

\* uint32_t / unsigned int arithmetic wraps at this modulus.  The program's is
\* 2^32, which TLC's integers cannot hold; the model wraps at 2^16.
UInt32 == 65536

NULL == -1

VARIABLES
    variant,            \* which engine the process links
    run,                \* "ok", or "ub" once the process has executed
                        \* undefined behaviour
    properties,         \* Audio: GlobalData::properties
    availableSampleIds, \* std::queue of free sample ids
    availableClipIds,   \* std::queue of free clip ids
    sampleData,         \* Audio: GlobalData::sampleData
    clipData,           \* Audio: GlobalData::clipData
    errorString,        \* Audio: GlobalData::errorString; Juke: error
    loadedSamples,      \* Juke, AudioSystem: the sample pointer of each id
    playingClips,       \* Juke, AudioSystem: the clip pointer of each id
    sampleHeap,         \* Juke, AudioSystem: the AudioSampleData objects
    clipHeap,           \* Juke, AudioSystem: the AudioClipData objects
    clipsToFree,        \* Juke: clips stopped and not yet deleted
    clipsInFlight,      \* Juke: the counter Flush() reports
    render,             \* where the render callback stands
    outputBuffer,       \* Audio: the interleaved buffer the callback fills
    gData,              \* Audio: the pointer gData ("nullptr", "allocated",
                        \* or "deleted" once Terminate has deleted the object)
    stream              \* "started" while PortAudio calls the callback

\* What no call but Initialize and Terminate changes.
fixed == <<variant, properties, gData, stream>>
\* The state of namespace Audio, and of the two older engines.
audioVars == <<sampleData, clipData>>
jukeVars == <<loadedSamples, playingClips, sampleHeap, clipHeap, clipsToFree,
              clipsInFlight>>

vars == <<fixed, run, availableSampleIds, availableClipIds, errorString,
          audioVars, jukeVars, render, outputBuffer>>

(***************************************************************************)
(* Data of namespace Audio.                                                *)
(***************************************************************************)
\* SampleData after Reset() / default construction.
SampleDataDefault ==
    [data |-> FALSE, length |-> 0, mono |-> FALSE, amplitude |-> 0]

\* ClipData after Reset() / default construction.
ClipDataDefault ==
    [sample |-> NULL, state |-> "Paused", sampleIndex |-> 0,
     volume |-> 100, pan |-> 0, loopCount |-> 0]

\* The indices of the two pools (each is resized to max...Count + 1).
SampleSlots == 0..properties.maxSampleCount
ClipSlots == 0..properties.maxClipCount
\* The handles a caller passes: 0, the ids of the pool, one id past the pool.
SampleHandles == 0..(properties.maxSampleCount + 1)
ClipHandles == 0..(properties.maxClipCount + 1)

\* The ids first..last in order, as Initialize pushes them.
RECURSIVE IdsFrom(_, _)
IdsFrom(first, last) ==
    IF first > last THEN <<>> ELSE <<first>> \o IdsFrom(first + 1, last)

InQueue(id, q) == \E i \in 1..Len(q) : q[i] = id

\* A step whose behaviour the language leaves undefined (a read or write outside
\* a pool, a read of a released or absent buffer).  Whatever the build does
\* next - crash, read garbage, corrupt a neighbour - the model does not follow
\* the process any further: run = "ub" stands for all of it.
Undefined == run' = "ub"

Alive == run = "ok"

RenderIdle == [at |-> "idle", i |-> 0, f |-> 0, clip |-> NULL]

\* An output buffer of frames frames, two floats each, all 0.0f.
Silence(frames) == [k \in 1..(2 * frames) |-> 0]

\* The state Audio::Initialize(props) leaves.
Initialize(props) ==
    /\ variant = "Audio"
    /\ run = "ok"
    /\ properties = props
    /\ availableSampleIds = IdsFrom(1, props.maxSampleCount)
    /\ availableClipIds = IdsFrom(1, props.maxClipCount)
    /\ sampleData = [s \in 0..props.maxSampleCount |-> SampleDataDefault]
    /\ clipData = [c \in 0..props.maxClipCount |-> ClipDataDefault]
    /\ errorString = <<>>
    /\ loadedSamples = <<>>
    /\ playingClips = <<>>
    /\ sampleHeap = <<>>
    /\ clipHeap = <<>>
    /\ clipsToFree = {}
    /\ clipsInFlight = 0
    /\ render = RenderIdle
    /\ outputBuffer = Silence(props.bufferSize)
    /\ gData = "allocated"
    /\ stream = "started"

(***************************************************************************)
(* Audio: the render side (ClipData::Next and friends).  Each operator     *)
(* maps a ClipData value to [clip |-> the value afterwards, fault |->       *)
(* whether the call read memory it must not read] and what the call         *)
(* returns (value, or left and right).                                      *)
(***************************************************************************)
\* *sample for a ClipData::sample pointer p.  A pointer past the pool (a clip
\* created from an out-of-range handle) reads memory that is no SampleData.
SampleAt(p) == IF p \in SampleSlots THEN sampleData[p] ELSE SampleDataDefault

\* sample->data[sampleIndex] is a read of an allocated buffer, inside it.
ReadOk(c) ==
    /\ c.sample \in SampleSlots
    /\ sampleData[c.sample].data
    /\ c.sampleIndex < sampleData[c.sample].length

\* IncrementSampleIndex without the decrement of the loop counter.
IncrementSampleIndex_NoDecrement(c) ==
    IF c.sample = NULL
    THEN c
    ELSE LET idx == (c.sampleIndex + 1) % UInt32
         IN  IF idx >= SampleAt(c.sample).length
             THEN IF c.loopCount = 0
                  THEN [c EXCEPT !.sampleIndex = idx, !.state = "Complete"]
                  ELSE [c EXCEPT !.sampleIndex = 0]
             ELSE [c EXCEPT !.sampleIndex = idx]

\* IncrementSampleIndex without the test for the counter that loops for ever.
IncrementSampleIndex_AlwaysDecrement(c) ==
    IF c.sample = NULL
    THEN c
    ELSE LET idx == (c.sampleIndex + 1) % UInt32
         IN  IF idx >= SampleAt(c.sample).length
             THEN IF c.loopCount = 0
                  THEN [c EXCEPT !.sampleIndex = idx, !.state = "Complete"]
                  ELSE [c EXCEPT !.sampleIndex = 0, !.loopCount = @ - 1]
             ELSE [c EXCEPT !.sampleIndex = idx]

\* IncrementSampleIndex that resets the clip when it runs over.
IncrementSampleIndex_ResetsAtEnd(c) ==
    IF c.sample = NULL
    THEN c
    ELSE LET idx == (c.sampleIndex + 1) % UInt32
         IN  IF idx >= SampleAt(c.sample).length
             THEN IF c.loopCount = 0
                  THEN ClipDataDefault
                  ELSE [c EXCEPT !.sampleIndex = 0,
                                 !.loopCount = IF @ # UInt32 - 1 THEN @ - 1 ELSE @]
             ELSE [c EXCEPT !.sampleIndex = idx]

IncrementSampleIndex(c) ==
    IF c.sample = NULL
    THEN c
    ELSE LET idx == (c.sampleIndex + 1) % UInt32
         IN  IF idx >= SampleAt(c.sample).length
             THEN IF c.loopCount = 0
                  THEN [c EXCEPT !.sampleIndex = idx, !.state = "Complete"]
                  ELSE [c EXCEPT !.sampleIndex = 0,
                                 !.loopCount = IF @ # UInt32 - 1 THEN @ - 1 ELSE @]
             ELSE [c EXCEPT !.sampleIndex = idx]

\* Next without the test of the clip's state.
\* sample->data[sampleIndex] * volume, for a read inside the buffer.
SampleValue(c) ==
    IF ReadOk(c) THEN (sampleData[c.sample].amplitude * c.volume) \div 100 ELSE 0

ClipNext_NoStateTest(c) ==
    IF c.sample = NULL
    THEN [clip |-> c, fault |-> FALSE, value |-> 0]
    ELSE [clip |-> IncrementSampleIndex(c), fault |-> ~ReadOk(c),
          value |-> SampleValue(c)]

ClipNext(c) ==
    IF c.sample = NULL \/ c.state = "Paused" \/ c.state = "Complete"
    THEN [clip |-> c, fault |-> FALSE, value |-> 0]
    ELSE [clip |-> IncrementSampleIndex(c), fault |-> ~ReadOk(c),
          value |-> SampleValue(c)]

NextStereo(c) ==
    IF c.sample = NULL
    THEN [clip |-> c, fault |-> FALSE, left |-> 0, right |-> 0]
    ELSE IF SampleAt(c.sample).mono
    THEN [clip |-> ClipNext(c).clip,
          fault |-> ClipNext(c).fault \/ c.sample \notin SampleSlots,
          left |-> ClipNext(c).value, right |-> ClipNext(c).value]
    ELSE LET a == ClipNext(c)
             b == ClipNext(a.clip)
         IN  [clip |-> b.clip,
              fault |-> a.fault \/ b.fault \/ c.sample \notin SampleSlots,
              left |-> (a.value * (100 - c.pan)) \div 100,
              right |-> (b.value * (100 + c.pan)) \div 100]

\* The slot the callback's loop over clipData visits after slot i.
AfterClip(i) ==
    IF i = properties.maxClipCount THEN RenderIdle ELSE [at |-> "clip", i |-> i + 1, f |-> 0, clip |-> NULL]

\* The callback is entered: the output buffer is zeroed, the loop starts.
PortAudioCallback_Enter ==
    /\ variant = "Audio" /\ Alive
    /\ stream = "started"
    /\ render.at = "idle"
    /\ render' = [at |-> "clip", i |-> 0, f |-> 0, clip |-> NULL]
    /\ outputBuffer' = Silence(properties.bufferSize)
    /\ UNCHANGED <<fixed, jukeVars, run, availableSampleIds, availableClipIds,
                   sampleData, clipData, errorString>>

\* The head of the loop body without its test: every slot is rendered.
PortAudioCallback_Clip_NoStateTest ==
    /\ variant = "Audio" /\ Alive
    /\ render.at = "clip"
    /\ render' = [render EXCEPT !.at = "frame"]
    /\ UNCHANGED <<fixed, jukeVars, run, availableSampleIds, availableClipIds,
                   sampleData, clipData, errorString, outputBuffer>>

\* The test at the head of the loop body: a clip that is not Playing is skipped.
PortAudioCallback_Clip ==
    /\ variant = "Audio" /\ Alive
    /\ render.at = "clip"
    /\ render' = IF clipData[render.i].state # "Playing"
                 THEN AfterClip(render.i)
                 ELSE [render EXCEPT !.at = "frame"]
    /\ UNCHANGED <<fixed, jukeVars, run, availableSampleIds, availableClipIds,
                   sampleData, clipData, errorString, outputBuffer>>

\* One turn of the frame loop: clip.NextStereo() and the two additions.
PortAudioCallback_Frame ==
    /\ variant = "Audio" /\ Alive
    /\ render.at = "frame"
    /\ LET r == NextStereo(clipData[render.i])
       IN  /\ clipData' = [clipData EXCEPT ![render.i] = r.clip]
           /\ outputBuffer' =
                  [outputBuffer EXCEPT ![2 * render.f + 1] = @ + r.left,
                                       ![2 * render.f + 2] = @ + r.right]
           /\ IF r.fault THEN Undefined ELSE UNCHANGED run
    /\ render' = IF render.f + 1 = properties.bufferSize
                 THEN AfterClip(render.i)
                 ELSE [render EXCEPT !.f = @ + 1]
    /\ UNCHANGED <<fixed, jukeVars, availableSampleIds, availableClipIds, sampleData,
                   errorString>>

(***************************************************************************)
(* Audio: samples.                                                         *)
(***************************************************************************)
\* The files CreateSample is given: what std::filesystem and libsndfile say
\* of each.  These files hold silence.
Files ==
    {[name |-> "missing.wav", exists |-> FALSE, regular |-> FALSE,
      error |-> FALSE, channels |-> 1, samplerate |-> 44100, frames |-> 1,
      amplitude |-> 0]}
    \cup
    {[name |-> "ok.wav", exists |-> TRUE, regular |-> TRUE, error |-> FALSE,
      channels |-> ch, samplerate |-> 44100, frames |-> MaxFrames,
      amplitude |-> 0] :
        ch \in {1, 2}}

\* The message CreateSample / Load records for a file it refuses, <<>> for a
\* file it accepts.
FileError(file) ==
    IF ~file.exists
    THEN <<"Error loading sample '", file.name, "': File does not exist.">>
    ELSE IF ~file.regular
    THEN <<"Error loading sample '", file.name, "': Path is not a file.">>
    ELSE IF file.error
    THEN <<"Error loading sample '", file.name, "': ", "strError">>
    ELSE IF file.channels # 1 /\ file.channels # 2
    THEN <<"Error loading sample '", file.name, "': Sample must be mono or stereo.">>
    ELSE IF file.samplerate # 44100
    THEN <<"Error loading sample '", file.name, "': Sample must be 44100 Hz.">>
    ELSE <<>>

CreateSample(file) ==
    /\ variant = "Audio" /\ Alive
    /\ IF availableSampleIds = <<>>
       THEN /\ errorString' = <<"Error creating sample '", file.name,
                                "': No available sample IDs.">>
            /\ UNCHANGED <<availableSampleIds, sampleData, run>>
       ELSE IF FileError(file) # <<>>
       THEN /\ errorString' = FileError(file)
            /\ UNCHANGED <<availableSampleIds, sampleData, run>>
       ELSE LET sampleId == Head(availableSampleIds)
                sample == [data |-> TRUE,
                           length |-> (file.frames * file.channels) % UInt32,
                           mono |-> file.channels = 1,
                           amplitude |-> file.amplitude]
            IN  /\ availableSampleIds' = Tail(availableSampleIds)
                /\ IF sampleId \in SampleSlots
                   THEN /\ sampleData' = [sampleData EXCEPT ![sampleId] = sample]
                        /\ UNCHANGED run
                   ELSE Undefined /\ UNCHANGED sampleData
                /\ UNCHANGED errorString
    /\ UNCHANGED <<fixed, jukeVars, availableClipIds, clipData, render, outputBuffer>>

\* What CreateSample(file) returns: 0 when it refuses, else the id it pops.
CreateSampleResult(file) ==
    IF availableSampleIds = <<>> \/ FileError(file) # <<>>
    THEN 0 ELSE Head(availableSampleIds)

DestroySample(sample) ==
    /\ variant = "Audio" /\ Alive
    /\ IF sample = 0
       THEN /\ errorString' = <<"Error destroying sample: Invalid sample.">>
            /\ UNCHANGED <<availableSampleIds, sampleData, run>>
       ELSE /\ Len(availableSampleIds) < properties.maxSampleCount + ExtraReleases
            /\ IF sample \in SampleSlots
               THEN /\ sampleData' = [sampleData EXCEPT ![sample] = SampleDataDefault]
                    /\ UNCHANGED run
               ELSE Undefined /\ UNCHANGED sampleData
            /\ availableSampleIds' = Append(availableSampleIds, sample)
            /\ UNCHANGED errorString
    /\ UNCHANGED <<fixed, jukeVars, availableClipIds, clipData, render, outputBuffer>>

(***************************************************************************)
(* Audio: clips.                                                           *)
(***************************************************************************)
\* A CreateClip that binds the slot without resetting it.
CreateClipOutcome_NoReset(sample) ==
    IF sample = 0
    THEN [val |-> 0, clips |-> clipData, ids |-> availableClipIds,
          err |-> <<"Error creating clip: Invalid sample.">>, fault |-> FALSE]
    ELSE IF availableClipIds = <<>>
    THEN [val |-> 0, clips |-> clipData, ids |-> availableClipIds,
          err |-> <<"Error creating clip: No available clip IDs.">>,
          fault |-> FALSE]
    ELSE LET clipId == Head(availableClipIds)
         IN  [val |-> clipId,
              clips |-> IF clipId \in ClipSlots
                        THEN [clipData EXCEPT
                                 ![clipId].sample = sample]
                        ELSE clipData,
              ids |-> Tail(availableClipIds),
              err |-> errorString,
              fault |-> clipId \notin ClipSlots \/ sample \notin SampleSlots]

\* CreateClip(sample) from the present state: the handle it returns, the pool
\* and the free-list it leaves, the error it records, and whether it touched
\* memory outside the pools.
CreateClipOutcome(sample) ==
    IF sample = 0
    THEN [val |-> 0, clips |-> clipData, ids |-> availableClipIds,
          err |-> <<"Error creating clip: Invalid sample.">>, fault |-> FALSE]
    ELSE IF availableClipIds = <<>>
    THEN [val |-> 0, clips |-> clipData, ids |-> availableClipIds,
          err |-> <<"Error creating clip: No available clip IDs.">>,
          fault |-> FALSE]
    ELSE LET clipId == Head(availableClipIds)
         IN  [val |-> clipId,
              clips |-> IF clipId \in ClipSlots
                        THEN [clipData EXCEPT
                                 ![clipId] = [ClipDataDefault EXCEPT !.sample = sample]]
                        ELSE clipData,
              ids |-> Tail(availableClipIds),
              err |-> errorString,
              fault |-> clipId \notin ClipSlots \/ sample \notin SampleSlots]

CreateClip(sample) ==
    /\ variant = "Audio" /\ Alive
    /\ LET o == CreateClipOutcome(sample)
       IN  /\ clipData' = o.clips
           /\ availableClipIds' = o.ids
           /\ errorString' = o.err
           /\ IF o.fault THEN Undefined ELSE UNCHANGED run
    /\ UNCHANGED <<fixed, jukeVars, availableSampleIds, sampleData, render, outputBuffer>>

PlaySample(sample) ==
    /\ variant = "Audio" /\ Alive
    /\ IF sample = 0
       THEN /\ errorString' = <<"Error playing sample: Invalid sample.">>
            /\ UNCHANGED <<clipData, availableClipIds, run>>
       ELSE LET o == CreateClipOutcome(sample)
            IN  /\ availableClipIds' = o.ids
                /\ IF o.val = 0
                   THEN /\ errorString' = <<"Error playing sample: ">> \o o.err
                        /\ clipData' = o.clips
                   ELSE /\ errorString' = o.err
                        /\ clipData' = IF o.val \in ClipSlots
                                       THEN [o.clips EXCEPT ![o.val].state = "Playing"]
                                       ELSE o.clips
                /\ IF o.fault THEN Undefined ELSE UNCHANGED run
    /\ UNCHANGED <<fixed, jukeVars, availableSampleIds, sampleData, render, outputBuffer>>

\* What PlaySample(sample) returns.
PlaySampleResult(sample) ==
    IF sample = 0 THEN 0 ELSE CreateClipOutcome(sample).val

\* A DestroyClip that puts the id at the head of the free-list.
DestroyClip_PushFront(clip) ==
    /\ variant = "Audio" /\ Alive
    /\ IF clip = 0
       THEN UNCHANGED <<clipData, availableClipIds, run>>
       ELSE /\ Len(availableClipIds) < properties.maxClipCount + ExtraReleases
            /\ IF clip \in ClipSlots
               THEN /\ clipData' = [clipData EXCEPT ![clip] = ClipDataDefault]
                    /\ UNCHANGED run
               ELSE Undefined /\ UNCHANGED clipData
            /\ availableClipIds' = <<clip>> \o availableClipIds
    /\ UNCHANGED <<fixed, jukeVars, availableSampleIds, sampleData, errorString,
                   render, outputBuffer>>

DestroyClip(clip) ==
    /\ variant = "Audio" /\ Alive
    /\ IF clip = 0
       THEN UNCHANGED <<clipData, availableClipIds, run>>
       ELSE /\ Len(availableClipIds) < properties.maxClipCount + ExtraReleases
            /\ IF clip \in ClipSlots
               THEN /\ clipData' = [clipData EXCEPT ![clip] = ClipDataDefault]
                    /\ UNCHANGED run
               ELSE Undefined /\ UNCHANGED clipData
            /\ availableClipIds' = Append(availableClipIds, clip)
    /\ UNCHANGED <<fixed, jukeVars, availableSampleIds, sampleData, errorString,
                   render, outputBuffer>>

\* The ids of the Complete slots from slot i on, in the order Flush meets them.
RECURSIVE CompleteFrom(_)
CompleteFrom(i) ==
    IF i > properties.maxClipCount
    THEN <<>>
    ELSE (IF clipData[i].state = "Complete" /\ i # 0 THEN <<i>> ELSE <<>>)
         \o CompleteFrom(i + 1)

\* A Flush that also resets the slots it finds Paused.
Flush_ResetsPaused ==
    /\ variant = "Audio" /\ Alive
    /\ Len(availableClipIds) + Len(CompleteFrom(0)) <= properties.maxClipCount + ExtraReleases
    /\ clipData' = [i \in ClipSlots |->
                       IF clipData[i].state # "Playing" /\ i # 0
                       THEN ClipDataDefault ELSE clipData[i]]
    /\ availableClipIds' = availableClipIds \o CompleteFrom(0)
    /\ UNCHANGED <<fixed, jukeVars, run, availableSampleIds, sampleData, errorString,
                   render, outputBuffer>>

\* A Flush whose DestroyClip releases the handle and does not reset the slot.
Flush_NoReset ==
    /\ variant = "Audio" /\ Alive
    /\ Len(availableClipIds) + Len(CompleteFrom(0)) <= properties.maxClipCount + ExtraReleases
    /\ availableClipIds' = availableClipIds \o CompleteFrom(0)
    /\ UNCHANGED <<fixed, jukeVars, run, availableSampleIds, sampleData, errorString,
                   render, outputBuffer, clipData>>

\* Flush: DestroyClip(i) for every slot i found Complete (DestroyClip(0)
\* returns at once).
Flush ==
    /\ variant = "Audio" /\ Alive
    /\ Len(availableClipIds) + Len(CompleteFrom(0)) <= properties.maxClipCount + ExtraReleases
    /\ clipData' = [i \in ClipSlots |->
                       IF clipData[i].state = "Complete" /\ i # 0
                       THEN ClipDataDefault ELSE clipData[i]]
    /\ availableClipIds' = availableClipIds \o CompleteFrom(0)
    /\ UNCHANGED <<fixed, jukeVars, run, availableSampleIds, sampleData, errorString,
                   render, outputBuffer>>

\* SetClipField without its test of the handle: what Play, Pause and the
\* setters would do if they did not return at once for handle 0.
SetClipField_NoHandleTest(clip, updated) ==
    /\ variant = "Audio" /\ Alive
    /\ IF clip \notin ClipSlots
       THEN Undefined /\ UNCHANGED clipData
       ELSE /\ clipData' = [clipData EXCEPT ![clip] = updated]
            /\ UNCHANGED run
    /\ UNCHANGED <<fixed, jukeVars, availableSampleIds, availableClipIds, sampleData,
                   errorString, render, outputBuffer>>

\* A void call that writes one field of a clip: nothing for handle 0, a write
\* outside the pool for a handle past it.
SetClipField(clip, updated) ==
    /\ variant = "Audio" /\ Alive
    /\ IF clip = 0
       THEN UNCHANGED <<clipData, run>>
       ELSE IF clip \notin ClipSlots
       THEN Undefined /\ UNCHANGED clipData
       ELSE /\ clipData' = [clipData EXCEPT ![clip] = updated]
            /\ UNCHANGED run
    /\ UNCHANGED <<fixed, jukeVars, availableSampleIds, availableClipIds, sampleData,
                   errorString, render, outputBuffer>>

\* clipData[clip] for a handle of the pool; a handle past it is not read.
ClipAt(clip) == IF clip \in ClipSlots THEN clipData[clip] ELSE ClipDataDefault

\* A Play that starts the clip over.
Play_FromStart(clip) ==
    SetClipField(clip, [ClipAt(clip) EXCEPT !.state = "Playing", !.sampleIndex = 0])

Play(clip) == SetClipField(clip, [ClipAt(clip) EXCEPT !.state = "Playing"])

Pause(clip) == SetClipField(clip, [ClipAt(clip) EXCEPT !.state = "Paused"])

SetClipVolume(clip, volume) ==
    SetClipField(clip, [ClipAt(clip) EXCEPT !.volume = volume])

SetClipPan(clip, pan) == SetClipField(clip, [ClipAt(clip) EXCEPT !.pan = pan])

\* loopCount is unsigned int: SetClipLoop(clip, -1) stores UInt32 - 1.
SetClipLoop(clip, count) ==
    SetClipField(clip, [ClipAt(clip) EXCEPT !.loopCount = count % UInt32])

\* A SetClipPosition that does not scale the position to the sample's length.
SetClipPosition_Unscaled(clip, position) ==
    /\ variant = "Audio" /\ Alive
    /\ IF clip = 0
       THEN UNCHANGED <<clipData, run>>
       ELSE IF clip \notin ClipSlots
       THEN Undefined /\ UNCHANGED clipData
       ELSE IF clipData[clip].sample = NULL
       THEN UNCHANGED <<clipData, run>>
       ELSE /\ clipData' = [clipData EXCEPT ![clip].sampleIndex = position \div 100]
            /\ IF clipData[clip].sample \in SampleSlots
               THEN UNCHANGED run ELSE Undefined
    /\ UNCHANGED <<fixed, jukeVars, availableSampleIds, availableClipIds, sampleData,
                   errorString, render, outputBuffer>>

\* position is given in hundredths; static_cast<int> truncates.
SetClipPosition(clip, position) ==
    /\ variant = "Audio" /\ Alive
    /\ IF clip = 0
       THEN UNCHANGED <<clipData, run>>
       ELSE IF clip \notin ClipSlots
       THEN Undefined /\ UNCHANGED clipData
       ELSE IF clipData[clip].sample = NULL
       THEN UNCHANGED <<clipData, run>>
       ELSE /\ clipData' =
                  [clipData EXCEPT ![clip].sampleIndex =
                      (position * SampleAt(clipData[clip].sample).length) \div 100]
            /\ IF clipData[clip].sample \in SampleSlots
               THEN UNCHANGED run ELSE Undefined
    /\ UNCHANGED <<fixed, jukeVars, availableSampleIds, availableClipIds, sampleData,
                   errorString, render, outputBuffer>>

\* The getters, for a handle of the pool.
GetClipVolume(clip) == IF clip = 0 THEN 0 ELSE clipData[clip].volume

GetClipPan(clip) == IF clip = 0 THEN 0 ELSE clipData[clip].pan

\* int GetClipLoop: the unsigned counter read back as int.
GetClipLoop(clip) ==
    IF clip = 0 THEN 0
    ELSE IF clipData[clip].loopCount >= UInt32 \div 2
    THEN clipData[clip].loopCount - UInt32
    ELSE clipData[clip].loopCount

\* float GetClipPosition, for a handle of the pool: the quotient
\* (float)sampleIndex / length as the fraction num / den.  A length of 0 makes
\* the quotient NaN or infinite: den = 0.
GetClipPosition(clip) ==
    IF clip = 0 \/ clipData[clip].sample = NULL
    THEN [num |-> 0, den |-> 1]
    ELSE [num |-> clipData[clip].sampleIndex,
          den |-> SampleAt(clipData[clip].sample).length]

IsClipPlaying(clip) == IF clip = 0 THEN FALSE ELSE clipData[clip].state = "Playing"

GetPlayingClipCount == Cardinality({i \in ClipSlots : clipData[i].state = "Playing"})

GetErrorString == errorString

\* The values the control context passes to the setters.
Volumes == {50}
Pans == {-100}
LoopCounts == {2, -1}
Positions == {50, 100}

\* The calls that create, start, stop and destroy, and the callback.
AudioNext ==
    \/ PortAudioCallback_Enter
    \/ PortAudioCallback_Clip
    \/ PortAudioCallback_Frame
    \/ \E file \in Files : CreateSample(file)
    \/ \E sample \in SampleHandles : DestroySample(sample)
    \/ \E sample \in SampleHandles : PlaySample(sample)
    \/ \E sample \in SampleHandles : CreateClip(sample)
    \/ \E clip \in ClipHandles : DestroyClip(clip)
    \/ Flush
    \/ \E clip \in ClipHandles : Play(clip)
    \/ \E clip \in ClipHandles : Pause(clip)

\* The calls that set a field of a clip.
AudioSetters ==
    \/ \E clip \in ClipHandles, volume \in Volumes : SetClipVolume(clip, volume)
    \/ \E clip \in ClipHandles, pan \in Pans : SetClipPan(clip, pan)
    \/ \E clip \in ClipHandles, count \in LoopCounts : SetClipLoop(clip, count)
    \/ \E clip \in ClipHandles, position \in Positions :
           SetClipPosition(clip, position)

\* A process that uses the whole interface on a pool of maxClipCount clips
\* but leaves the clips' fields as CreateClip sets them.
InitAudio ==
    Initialize([bufferSize |-> bufferSize, sampleRate |-> 44100,
                maxSampleCount |-> maxSampleCount, maxClipCount |-> maxClipCount])

SpecAudio == InitAudio /\ [][AudioNext]_vars

\* A process that uses the whole interface, setters included, on one clip.
InitAudioClip ==
    Initialize([bufferSize |-> bufferSize, sampleRate |-> 44100,
                maxSampleCount |-> maxSampleCount, maxClipCount |-> OneClip])

\* The longer file, mono, that process also hands to CreateSample.
LongFiles ==
    {[name |-> "long.wav", exists |-> TRUE, regular |-> TRUE, error |-> FALSE,
      channels |-> 1, samplerate |-> 44100, frames |-> LongFrames,
      amplitude |-> 0]}

AudioClipNext ==
    \/ AudioNext
    \/ AudioSetters
    \/ \E file \in LongFiles : CreateSample(file)

SpecAudioClip == InitAudioClip /\ [][AudioClipNext]_vars

\* A process that creates one clip and positions it, and never plays it: the
\* files have QuarterFrames frames, the positions are the quarters.
QuarterFiles ==
    {[name |-> "quarters.wav", exists |-> TRUE, regular |-> TRUE,
      error |-> FALSE, channels |-> ch, samplerate |-> 44100,
      frames |-> QuarterFrames, amplitude |-> 0] :
        ch \in {1, 2}}

Quarters == {0, 25, 50, 75}

AudioPositionNext ==
    \/ \E file \in QuarterFiles : CreateSample(file)
    \/ \E sample \in SampleHandles : DestroySample(sample)
    \/ \E sample \in SampleHandles : CreateClip(sample)
    \/ \E clip \in ClipHandles : DestroyClip(clip)
    \/ \E clip \in ClipHandles, position \in Quarters :
           SetClipPosition(clip, position)

SpecAudioPosition == InitAudioClip /\ [][AudioPositionNext]_vars

\* A process that plays files at full scale (1.0f) on maxClipCount clips,
\* pans them, and is called back for buffers of OneFrame frames: the process
\* in which the output buffer is not silence.
LoudFiles ==
    {[name |-> "loud.wav", exists |-> TRUE, regular |-> TRUE, error |-> FALSE,
      channels |-> ch, samplerate |-> 44100, frames |-> MaxFrames,
      amplitude |-> 100] :
        ch \in {1, 2}}

InitAudioMix ==
    Initialize([bufferSize |-> OneFrame, sampleRate |-> 44100,
                maxSampleCount |-> maxSampleCount, maxClipCount |-> maxClipCount])

AudioMixNext ==
    \/ PortAudioCallback_Enter
    \/ PortAudioCallback_Clip
    \/ PortAudioCallback_Frame
    \/ \E file \in LoudFiles : CreateSample(file)
    \/ \E sample \in 1..maxSampleCount : PlaySample(sample)
    \/ \E clip \in 1..maxClipCount : DestroyClip(clip)
    \/ Flush
    \/ \E clip \in 1..maxClipCount : Play(clip)
    \/ \E clip \in 1..maxClipCount : Pause(clip)
    \/ \E clip \in 1..maxClipCount, pan \in Pans : SetClipPan(clip, pan)

SpecAudioMix == InitAudioMix /\ [][AudioMixNext]_vars

\* A process that creates and releases the clips of a pool of PoolClips
\* clips, with handles of the pools only, and is called back for buffers of
\* OneFrame frames.
InitAudioPool ==
    Initialize([bufferSize |-> OneFrame, sampleRate |-> 44100,
                maxSampleCount |-> maxSampleCount, maxClipCount |-> PoolClips])

AudioPoolNext ==
    \/ PortAudioCallback_Enter
    \/ PortAudioCallback_Clip
    \/ PortAudioCallback_Frame
    \/ \E file \in Files : CreateSample(file)
    \/ \E sample \in 1..maxSampleCount : CreateClip(sample)
    \/ \E sample \in 1..maxSampleCount : PlaySample(sample)
    \/ \E clip \in 1..PoolClips : DestroyClip(clip)
    \/ Flush

SpecAudioPool == InitAudioPool /\ [][AudioPoolNext]_vars

\* A process that creates, sets, plays and releases the one clip of its pool
\* on files at full scale, with handles of the pools only, and is called back
\* for buffers of OneFrame frames.
InitAudioLoudClip ==
    Initialize([bufferSize |-> OneFrame, sampleRate |-> 44100,
                maxSampleCount |-> maxSampleCount, maxClipCount |-> OneClip])

AudioLoudClipNext ==
    \/ PortAudioCallback_Enter
    \/ PortAudioCallback_Clip
    \/ PortAudioCallback_Frame
    \/ \E file \in LoudFiles : CreateSample(file)
    \/ \E sample \in 1..maxSampleCount : DestroySample(sample)
    \/ \E sample \in 1..maxSampleCount : CreateClip(sample)
    \/ \E clip \in 1..OneClip : DestroyClip(clip)
    \/ Flush
    \/ \E clip \in 1..OneClip : Play(clip)
    \/ \E clip \in 1..OneClip : Pause(clip)
    \/ \E clip \in 1..OneClip, volume \in Volumes : SetClipVolume(clip, volume)
    \/ \E clip \in 1..OneClip, pan \in Pans : SetClipPan(clip, pan)
    \/ \E clip \in 1..OneClip, count \in LoopCounts : SetClipLoop(clip, count)
    \/ \E clip \in 1..OneClip, position \in Positions :
           SetClipPosition(clip, position)

SpecAudioLoudClip == InitAudioLoudClip /\ [][AudioLoudClipNext]_vars

(***************************************************************************)
(* Audio: the life of the engine itself.  Initialize as a call, with the    *)
(* answer of PortAudio as its input, and Terminate.                         *)
(***************************************************************************)
\* What PortAudio answers during Initialize: the step that fails, or "ok".
DeviceAnswers == {"ok", "Pa_Initialize", "paNoDevice", "Pa_OpenStream", "Pa_StartStream"}

\* GlobalData::properties before any Initialize.
NoProperties ==
    [bufferSize |-> 0, sampleRate |-> 0, maxSampleCount |-> 0, maxClipCount |-> 0]

\* The process before its first call of Initialize: gData == nullptr.
NotInitialized ==
    /\ variant = "Audio"
    /\ run = "ok"
    /\ gData = "nullptr"
    /\ stream = "closed"
    /\ properties = NoProperties
    /\ availableSampleIds = <<>>
    /\ availableClipIds = <<>>
    /\ sampleData = <<>>
    /\ clipData = <<>>
    /\ errorString = <<>>
    /\ loadedSamples = <<>>
    /\ playingClips = <<>>
    /\ sampleHeap = <<>>
    /\ clipHeap = <<>>
    /\ clipsToFree = {}
    /\ clipsInFlight = 0
    /\ render = RenderIdle
    /\ outputBuffer = <<>>

\* What Initialize returns when PortAudio answers pa.
InitializeResult(pa) == gData = "nullptr" /\ pa = "ok"

\* bool Initialize(properties), PortAudio answering pa.
InitializeCall(props, pa) ==
    /\ variant = "Audio" /\ Alive
    /\ IF gData # "nullptr"
       THEN UNCHANGED <<gData, stream, properties, availableSampleIds,
                        availableClipIds, sampleData, clipData, errorString,
                        outputBuffer>>
       ELSE /\ gData' = "allocated"
            /\ properties' = props
            /\ availableSampleIds' = IdsFrom(1, props.maxSampleCount)
            /\ availableClipIds' = IdsFrom(1, props.maxClipCount)
            /\ sampleData' = [s \in 0..props.maxSampleCount |-> SampleDataDefault]
            /\ clipData' = [c \in 0..props.maxClipCount |-> ClipDataDefault]
            /\ errorString' = IF pa = "ok" THEN <<>>
                              ELSE IF pa = "paNoDevice"
                              THEN <<"No default output device.">>
                              ELSE <<"Pa_GetErrorText">>
            /\ stream' = IF pa = "ok" THEN "started"
                         ELSE IF pa = "Pa_StartStream" THEN "open" ELSE "closed"
            /\ outputBuffer' = Silence(props.bufferSize)
    /\ UNCHANGED <<variant, run, jukeVars, render>>

\* void Terminate(), for an engine that Initialize has allocated.
\* Pa_StopStream returns once the callback has returned; the vectors and the
\* queues are emptied (the buffers of the samples are not released), the
\* object is deleted and the pointer gData keeps its value.
Terminate ==
    /\ variant = "Audio" /\ Alive
    /\ gData = "allocated"
    /\ render = RenderIdle
    /\ gData' = "deleted"
    /\ stream' = "closed"
    /\ availableSampleIds' = <<>>
    /\ availableClipIds' = <<>>
    /\ sampleData' = <<>>
    /\ clipData' = <<>>
    /\ errorString' = <<>>
    /\ UNCHANGED <<variant, run, properties, jukeVars, render, outputBuffer>>

\* Any call but Initialize while gData is null or points at the deleted
\* object: the call reads a field through gData.
CallWithoutGlobalData ==
    /\ variant = "Audio" /\ Alive
    /\ gData # "allocated"
    /\ Undefined
    /\ UNCHANGED <<fixed, jukeVars, availableSampleIds, availableClipIds, sampleData,
                   clipData, errorString, render, outputBuffer>>

\* The rates an engine is initialized with and a file is recorded at, and
\* the files of the process below: every channel count from 1 to 3 at every
\* rate.
SampleRates == {44100, 48000}

RateFiles ==
    {[name |-> "rate.wav", exists |-> TRUE, regular |-> TRUE, error |-> FALSE,
      channels |-> ch, samplerate |-> rate, frames |-> MaxFrames,
      amplitude |-> 0] :
        ch \in 1..3, rate \in SampleRates}

\* The properties that process passes to Initialize.
EngineProperties ==
    {[bufferSize |-> OneFrame, sampleRate |-> rate,
      maxSampleCount |-> maxSampleCount, maxClipCount |-> OneClip] :
        rate \in SampleRates}

\* A process that starts before Initialize, initializes the engine at one of
\* the rates on a device that may fail, loads and plays files of either rate,
\* and terminates.
AudioEngineNext ==
    \/ \E props \in EngineProperties, pa \in DeviceAnswers :
           InitializeCall(props, pa)
    \/ Terminate
    \/ CallWithoutGlobalData
    \/ /\ gData = "allocated"
       /\ \/ PortAudioCallback_Enter
          \/ PortAudioCallback_Clip
          \/ PortAudioCallback_Frame
          \/ \E file \in RateFiles : CreateSample(file)
          \/ \E sample \in 1..maxSampleCount : DestroySample(sample)
          \/ \E sample \in 1..maxSampleCount : PlaySample(sample)
          \/ Flush

SpecAudioEngine == NotInitialized /\ [][AudioEngineNext]_vars

(***************************************************************************)
(* Juke: data.  A pointer is an index into sampleHeap / clipHeap, NULL for  *)
(* nullptr; an object is "live" from new to delete and "freed" after.       *)
(***************************************************************************)
\* new AudioSampleData() as Load fills it: stereo keeps its default, true.
NewSample(file) ==
    [status |-> "live", size |-> (file.frames * file.channels) % UInt32,
     stereo |-> TRUE]

\* new AudioClipData() as Clip fills it.
NewClip(samplePtr) ==
    [status |-> "live", sample |-> samplePtr, position |-> 0, loop |-> FALSE,
     volume |-> 100, pan |-> 0, paused |-> TRUE, complete |-> FALSE]

JukeSampleSlots == 0..(MAX_SAMPLE_COUNT - 1)
JukeClipSlots == 0..(MAX_CLIP_COUNT - 1)
\* The handles a caller passes: the indices of the pool and one past it.
JukeSampleHandles == 0..MAX_SAMPLE_COUNT
JukeClipHandles == 0..MAX_CLIP_COUNT

\* The state Juke::Initialize leaves.
Juke_Initialize ==
    /\ variant = "Juke"
    /\ run = "ok"
    /\ properties = [bufferSize |-> bufferSize, sampleRate |-> 44100,
                     maxSampleCount |-> MAX_SAMPLE_COUNT - 1,
                     maxClipCount |-> MAX_CLIP_COUNT - 1]
    /\ availableSampleIds = IdsFrom(1, MAX_SAMPLE_COUNT - 1)
    /\ availableClipIds = IdsFrom(1, MAX_CLIP_COUNT - 1)
    /\ loadedSamples = [s \in JukeSampleSlots |-> NULL]
    /\ playingClips = [c \in JukeClipSlots |-> NULL]
    /\ sampleHeap = <<>>
    /\ clipHeap = <<>>
    /\ clipsToFree = {}
    /\ clipsInFlight = 0
    /\ errorString = <<>>
    /\ sampleData = <<>>
    /\ clipData = <<>>
    /\ render = RenderIdle
    /\ outputBuffer = Silence(bufferSize)
    /\ gData = "nullptr"
    /\ stream = "started"

\* The part of the state Stop works on.
JukeNow ==
    [playingClips |-> playingClips, clipsToFree |-> clipsToFree,
     availableClipIds |-> availableClipIds, clipsInFlight |-> clipsInFlight]

\* Juke::Stop(clip) on j, for a clip of the pool.
StopIn(j, clip) ==
    IF j.playingClips[clip] = NULL
    THEN j
    ELSE [playingClips |-> [j.playingClips EXCEPT ![clip] = NULL],
          clipsToFree |-> j.clipsToFree \cup {j.playingClips[clip]},
          availableClipIds |-> Append(j.availableClipIds, clip),
          clipsInFlight |-> (j.clipsInFlight - 1) % UInt32]

\* The loop of Free: Stop(i) for every i from i on whose clip plays ptr.
RECURSIVE StopBound(_, _, _)
StopBound(j, i, ptr) ==
    IF i > MAX_CLIP_COUNT - 1
    THEN j
    ELSE StopBound(IF j.playingClips[i] # NULL
                      /\ clipHeap[j.playingClips[i]].sample = ptr
                   THEN StopIn(j, i) ELSE j,
                   i + 1, ptr)

\* The loop of Flush: Stop(i) for every i from i on whose clip is complete.
RECURSIVE StopComplete(_, _)
StopComplete(j, i) ==
    IF i > MAX_CLIP_COUNT - 1
    THEN j
    ELSE StopComplete(IF j.playingClips[i] # NULL
                         /\ clipHeap[j.playingClips[i]].complete
                      THEN StopIn(j, i) ELSE j,
                      i + 1)

\* delete of every object of the set ptrs.
Deleted(heap, ptrs) ==
    [p \in DOMAIN heap |->
        IF p \in ptrs THEN [heap[p] EXCEPT !.status = "freed"] ELSE heap[p]]

\* The four variables Stop writes, set from j.
StopResult(j) ==
    /\ playingClips' = j.playingClips
    /\ clipsToFree' = j.clipsToFree
    /\ availableClipIds' = j.availableClipIds
    /\ clipsInFlight' = j.clipsInFlight

(***************************************************************************)
(* Juke: the control calls.                                                *)
(***************************************************************************)
\* What Load returns: 0 for a file it refuses, else the id at the head of the
\* free-list (front() of an empty queue is undefined).
Juke_LoadResult(file) ==
    IF FileError(file) # <<>> THEN 0
    ELSE IF availableSampleIds = <<>> THEN NULL
    ELSE Head(availableSampleIds)

Juke_Load(file) ==
    /\ variant = "Juke" /\ Alive
    /\ IF FileError(file) # <<>>
       THEN /\ errorString' = FileError(file)
            /\ UNCHANGED <<run, availableSampleIds, loadedSamples, sampleHeap>>
       ELSE /\ Len(sampleHeap) < MaxSampleObjects
            /\ sampleHeap' = Append(sampleHeap, NewSample(file))
            /\ UNCHANGED errorString
            /\ IF availableSampleIds = <<>>
               THEN Undefined /\ UNCHANGED <<availableSampleIds, loadedSamples>>
               ELSE /\ availableSampleIds' = Tail(availableSampleIds)
                    /\ loadedSamples' =
                          [loadedSamples EXCEPT
                              ![Head(availableSampleIds)] = Len(sampleHeap) + 1]
                    /\ UNCHANGED run
    /\ UNCHANGED <<fixed, audioVars, availableClipIds, playingClips, clipHeap,
                   clipsToFree, clipsInFlight, render, outputBuffer>>

Juke_Free(sample) ==
    /\ variant = "Juke" /\ Alive
    /\ IF sample \notin JukeSampleSlots
       THEN /\ Undefined
            /\ UNCHANGED <<availableSampleIds, loadedSamples, sampleHeap,
                           playingClips, clipsToFree, availableClipIds,
                           clipsInFlight>>
       ELSE /\ Len(availableSampleIds) < MAX_SAMPLE_COUNT - 1 + ExtraReleases
            /\ StopResult(StopBound(JukeNow, 0, loadedSamples[sample]))
            /\ sampleHeap' = Deleted(sampleHeap, {loadedSamples[sample]})
            /\ loadedSamples' = [loadedSamples EXCEPT ![sample] = NULL]
            /\ availableSampleIds' = Append(availableSampleIds, sample)
            /\ UNCHANGED run
    /\ UNCHANGED <<fixed, audioVars, errorString, clipHeap, render, outputBuffer>>

\* What Clip returns: 0 for a sample it refuses, else the id at the head of the
\* free-list.
Juke_ClipResult(sample) ==
    IF sample = 0 \/ loadedSamples[sample] = NULL THEN 0
    ELSE IF availableClipIds = <<>> THEN NULL
    ELSE Head(availableClipIds)

Juke_Clip(sample) ==
    /\ variant = "Juke" /\ Alive
    /\ IF sample = 0
       THEN /\ errorString' = <<"Error clipping sample: Invalid sample ID.">>
            /\ UNCHANGED <<run, availableClipIds, playingClips, clipHeap>>
       ELSE IF sample \notin JukeSampleSlots
       THEN /\ Undefined
            /\ UNCHANGED <<errorString, availableClipIds, playingClips, clipHeap>>
       ELSE IF loadedSamples[sample] = NULL
       THEN /\ errorString' =
                  <<"Error clipping sample: Sample has not been loaded.">>
            /\ UNCHANGED <<run, availableClipIds, playingClips, clipHeap>>
       ELSE IF availableClipIds = <<>>
       THEN /\ Undefined
            /\ UNCHANGED <<errorString, availableClipIds, playingClips, clipHeap>>
       ELSE /\ Len(clipHeap) < MaxClipObjects
            /\ availableClipIds' = Tail(availableClipIds)
            /\ clipHeap' = Append(clipHeap, NewClip(loadedSamples[sample]))
            /\ playingClips' =
                  [playingClips EXCEPT ![Head(availableClipIds)] = Len(clipHeap) + 1]
            /\ UNCHANGED <<run, errorString>>
    /\ UNCHANGED <<fixed, audioVars, availableSampleIds, loadedSamples,
                   sampleHeap, clipsToFree, clipsInFlight, render, outputBuffer>>

\* A call that writes the fields of one clip (and the counter): nothing when
\* the slot holds no clip, a read outside the pool for a handle past it.
JukeClipCall(clip, updated, inFlight) ==
    /\ variant = "Juke" /\ Alive
    /\ IF clip \notin JukeClipSlots
       THEN Undefined /\ UNCHANGED <<clipHeap, clipsInFlight>>
       ELSE IF playingClips[clip] = NULL
       THEN UNCHANGED <<run, clipHeap, clipsInFlight>>
       ELSE /\ clipHeap' = [clipHeap EXCEPT ![playingClips[clip]] = updated]
            /\ clipsInFlight' = inFlight
            /\ UNCHANGED run
    /\ UNCHANGED <<fixed, audioVars, errorString, availableSampleIds,
                   availableClipIds, loadedSamples, playingClips, sampleHeap,
                   clipsToFree, render, outputBuffer>>

\* *playingClips[clip] for a slot that holds a clip.
JukeClipAt(clip) ==
    IF clip \in JukeClipSlots /\ playingClips[clip] # NULL
    THEN clipHeap[playingClips[clip]] ELSE NewClip(NULL)

\* clipsInFlight read as a signed number (it wraps below 0).
InFlightSigned ==
    IF clipsInFlight >= UInt32 \div 2 THEN clipsInFlight - UInt32 ELSE clipsInFlight

Juke_Play(clip) ==
    /\ InFlightSigned < MaxInFlight
    /\ JukeClipCall(clip,
                    [JukeClipAt(clip) EXCEPT !.paused = FALSE, !.complete = FALSE,
                                             !.position = 0],
                    (clipsInFlight + 1) % UInt32)

Juke_SetVolume(clip, volume) ==
    JukeClipCall(clip, [JukeClipAt(clip) EXCEPT !.volume = volume], clipsInFlight)

Juke_SetLoop(clip, loop) ==
    JukeClipCall(clip, [JukeClipAt(clip) EXCEPT !.loop = loop], clipsInFlight)

Juke_SetPan(clip, pan) ==
    JukeClipCall(clip, [JukeClipAt(clip) EXCEPT !.pan = pan], clipsInFlight)

Juke_IsPlaying(clip) ==
    IF playingClips[clip] = NULL THEN FALSE
    ELSE ~clipHeap[playingClips[clip]].complete
         /\ ~clipHeap[playingClips[clip]].paused

Juke_Stop(clip) ==
    /\ variant = "Juke" /\ Alive
    /\ IF clip \notin JukeClipSlots
       THEN /\ Undefined
            /\ UNCHANGED <<playingClips, clipsToFree, availableClipIds,
                           clipsInFlight>>
       ELSE StopResult(StopIn(JukeNow, clip)) /\ UNCHANGED run
    /\ UNCHANGED <<fixed, audioVars, errorString, availableSampleIds,
                   loadedSamples, sampleHeap, clipHeap, render, outputBuffer>>

\* What Flush returns, from the state it leaves.
Juke_FlushResult == StopComplete(JukeNow, 1).clipsInFlight > 0

Juke_Flush ==
    /\ variant = "Juke" /\ Alive
    /\ LET j == StopComplete(JukeNow, 1)
       IN  /\ playingClips' = j.playingClips
           /\ availableClipIds' = j.availableClipIds
           /\ clipsInFlight' = j.clipsInFlight
           /\ clipHeap' = Deleted(clipHeap, j.clipsToFree)
           /\ clipsToFree' = {}
    /\ UNCHANGED <<fixed, audioVars, run, errorString, availableSampleIds,
                   loadedSamples, sampleHeap, render, outputBuffer>>

(***************************************************************************)
(* Juke: the render callback.                                              *)
(***************************************************************************)
\* AudioClipData::Next() on the clip value c, whose sample is live:
\* [clip |-> c afterwards, oob |-> it read data[position] past the buffer].
JukeClipNext(c) ==
    LET size == sampleHeap[c.sample].size
        p == IF c.position > size /\ c.loop THEN 0 ELSE c.position
    IN  IF c.position > size /\ ~c.loop
        THEN [clip |-> [c EXCEPT !.complete = TRUE], oob |-> FALSE]
        ELSE [clip |-> [c EXCEPT !.position = (p + 1) % UInt32],
              oob |-> p >= size]

\* One turn of the frame loop on c: two Next() for a stereo sample, one for a
\* mono sample.
JukeFrame(c) ==
    IF sampleHeap[c.sample].stereo
    THEN LET a == JukeClipNext(c)
             b == JukeClipNext(a.clip)
         IN  [clip |-> b.clip, oob |-> a.oob \/ b.oob]
    ELSE JukeClipNext(c)

\* The slot the loop over the vector visits after slot i.
JukeAfterClip(i) ==
    IF i = MAX_CLIP_COUNT - 1 THEN RenderIdle
    ELSE [at |-> "clip", i |-> i + 1, f |-> 0, clip |-> NULL]

Juke_paCallback_Enter ==
    /\ variant = "Juke" /\ Alive
    /\ render.at = "idle"
    /\ render' = [at |-> "clip", i |-> 0, f |-> 0, clip |-> NULL]
    /\ UNCHANGED <<fixed, audioVars, jukeVars, run, errorString,
                   availableSampleIds, availableClipIds, outputBuffer>>

\* The head of the loop body: the pointer is read from the vector; a null or
\* paused clip is skipped.
Juke_paCallback_Clip ==
    /\ variant = "Juke" /\ Alive
    /\ render.at = "clip"
    /\ render' = IF playingClips[render.i] = NULL
                    \/ clipHeap[playingClips[render.i]].paused
                 THEN JukeAfterClip(render.i)
                 ELSE [render EXCEPT !.at = "frame",
                                     !.clip = playingClips[render.i]]
    /\ UNCHANGED <<fixed, audioVars, jukeVars, run, errorString,
                   availableSampleIds, availableClipIds, outputBuffer>>

\* One turn of the frame loop, through the pointer read at the head.  A read
\* one past a live buffer either goes on with a garbage amplitude or is the
\* end of what the model follows.
Juke_paCallback_Frame ==
    /\ variant = "Juke" /\ Alive
    /\ render.at = "frame"
    /\ IF clipHeap[render.clip].status # "live"
          \/ sampleHeap[clipHeap[render.clip].sample].status # "live"
       THEN Undefined /\ UNCHANGED clipHeap
       ELSE LET r == JukeFrame(clipHeap[render.clip])
            IN  /\ clipHeap' = [clipHeap EXCEPT ![render.clip] = r.clip]
                /\ IF r.oob THEN run' \in {"ok", "ub"} ELSE UNCHANGED run
    /\ render' = IF render.f + 1 = bufferSize
                 THEN JukeAfterClip(render.i)
                 ELSE [render EXCEPT !.f = @ + 1]
    /\ UNCHANGED <<fixed, audioVars, errorString, availableSampleIds,
                   availableClipIds, loadedSamples, playingClips, sampleHeap,
                   clipsToFree, clipsInFlight, outputBuffer>>

JukeNext ==
    \/ Juke_paCallback_Enter
    \/ Juke_paCallback_Clip
    \/ Juke_paCallback_Frame
    \/ \E file \in Files : Juke_Load(file)
    \/ \E sample \in JukeSampleHandles : Juke_Clip(sample)
    \/ \E sample \in JukeSampleHandles : Juke_Free(sample)
    \/ \E clip \in JukeClipHandles : Juke_Play(clip)
    \/ \E clip \in JukeClipHandles : Juke_Stop(clip)
    \/ Juke_Flush

JukeSetters ==
    \/ \E clip \in JukeClipHandles, volume \in Volumes : Juke_SetVolume(clip, volume)
    \/ \E clip \in JukeClipHandles, pan \in Pans : Juke_SetPan(clip, pan)
    \/ \E clip \in JukeClipHandles, loop \in BOOLEAN : Juke_SetLoop(clip, loop)

SpecJuke == Juke_Initialize /\ [][JukeNext]_vars

\* A process of either of the two newer engines.
InitAudioOrJuke == InitAudioClip \/ Juke_Initialize

AudioOrJukeNext == AudioClipNext \/ JukeNext

SpecAudioOrJuke == InitAudioOrJuke /\ [][AudioOrJukeNext]_vars

\* A process of either of the two newer engines, the newest playing loud
\* files.
InitAudioMixOrJuke == InitAudioMix \/ Juke_Initialize

AudioMixOrJukeNext == AudioMixNext \/ JukeNext

SpecAudioMixOrJuke == InitAudioMixOrJuke /\ [][AudioMixOrJukeNext]_vars

(***************************************************************************)
(* AudioSystem, the oldest engine: the ids start at 0, Load and Clip check  *)
(* nothing, Stop deletes the clip at once.  AudioClipData::Next is the one  *)
(* of Juke (JukeClipNext); the callback calls it twice per frame.           *)
(***************************************************************************)
\* The state AudioSystem::Initialize leaves.
AudioSystem_Initialize ==
    /\ variant = "AudioSystem"
    /\ run = "ok"
    /\ properties = [bufferSize |-> bufferSize, sampleRate |-> 44100,
                     maxSampleCount |-> MAX_SAMPLE_COUNT,
                     maxClipCount |-> MAX_CLIP_COUNT]
    /\ availableSampleIds = IdsFrom(0, MAX_SAMPLE_COUNT - 1)
    /\ availableClipIds = IdsFrom(0, MAX_CLIP_COUNT - 1)
    /\ loadedSamples = [s \in JukeSampleSlots |-> NULL]
    /\ playingClips = [c \in JukeClipSlots |-> NULL]
    /\ sampleHeap = <<>>
    /\ clipHeap = <<>>
    /\ clipsToFree = {}
    /\ clipsInFlight = 0
    /\ errorString = <<>>
    /\ sampleData = <<>>
    /\ clipData = <<>>
    /\ render = RenderIdle
    /\ outputBuffer = Silence(bufferSize)
    /\ gData = "nullptr"
    /\ stream = "started"

\* The part of the state AudioSystem::Stop works on.
AudioSystemNow ==
    [playingClips |-> playingClips, clipHeap |-> clipHeap,
     availableClipIds |-> availableClipIds]

\* AudioSystem::Stop(clip) on a, for a clip of the pool.
AudioSystemStopIn(a, clip) ==
    [playingClips |-> [a.playingClips EXCEPT ![clip] = NULL],
     clipHeap |-> Deleted(a.clipHeap, {a.playingClips[clip]}),
     availableClipIds |-> Append(a.availableClipIds, clip)]

\* The loop of Free: Stop(i) for every i from i on whose clip plays ptr.
RECURSIVE AudioSystemStopBound(_, _, _)
AudioSystemStopBound(a, i, ptr) ==
    IF i > MAX_CLIP_COUNT - 1
    THEN a
    ELSE AudioSystemStopBound(IF a.playingClips[i] # NULL
                                 /\ a.clipHeap[a.playingClips[i]].sample = ptr
                              THEN AudioSystemStopIn(a, i) ELSE a,
                              i + 1, ptr)

\* What Load returns: the id at the head of the free-list.
AudioSystem_LoadResult ==
    IF availableSampleIds = <<>> THEN NULL ELSE Head(availableSampleIds)

\* Load checks nothing: a file libsndfile cannot open has 0 frames.
AudioSystem_Load(file) ==
    /\ variant = "AudioSystem" /\ Alive
    /\ Len(sampleHeap) < MaxSampleObjects
    /\ sampleHeap' =
          Append(sampleHeap,
                 [status |-> "live",
                  size |-> IF file.exists /\ file.regular /\ ~file.error
                           THEN (file.frames * file.channels) % UInt32 ELSE 0,
                  stereo |-> TRUE])
    /\ IF availableSampleIds = <<>>
       THEN Undefined /\ UNCHANGED <<availableSampleIds, loadedSamples>>
       ELSE /\ availableSampleIds' = Tail(availableSampleIds)
            /\ loadedSamples' =
                  [loadedSamples EXCEPT
                      ![Head(availableSampleIds)] = Len(sampleHeap) + 1]
            /\ UNCHANGED run
    /\ UNCHANGED <<fixed, audioVars, errorString, availableClipIds,
                   playingClips, clipHeap, clipsToFree, clipsInFlight, render, outputBuffer>>

AudioSystem_Free(sample) ==
    /\ variant = "AudioSystem" /\ Alive
    /\ IF sample \notin JukeSampleSlots
       THEN /\ Undefined
            /\ UNCHANGED <<availableSampleIds, loadedSamples, sampleHeap,
                           playingClips, clipHeap, availableClipIds>>
       ELSE /\ Len(availableSampleIds) < MAX_SAMPLE_COUNT + ExtraReleases
            /\ LET a == AudioSystemStopBound(AudioSystemNow, 0,
                                             loadedSamples[sample])
               IN  /\ playingClips' = a.playingClips
                   /\ clipHeap' = a.clipHeap
                   /\ availableClipIds' = a.availableClipIds
            /\ sampleHeap' = Deleted(sampleHeap, {loadedSamples[sample]})
            /\ loadedSamples' = [loadedSamples EXCEPT ![sample] = NULL]
            /\ availableSampleIds' = Append(availableSampleIds, sample)
            /\ UNCHANGED run
    /\ UNCHANGED <<fixed, audioVars, errorString, clipsToFree, clipsInFlight,
                   render, outputBuffer>>

\* What Clip returns: the id at the head of the free-list.
AudioSystem_ClipResult ==
    IF availableClipIds = <<>> THEN NULL ELSE Head(availableClipIds)

AudioSystem_Clip(sample) ==
    /\ variant = "AudioSystem" /\ Alive
    /\ IF availableClipIds = <<>> \/ sample \notin JukeSampleSlots
       THEN Undefined /\ UNCHANGED <<availableClipIds, playingClips, clipHeap>>
       ELSE /\ Len(clipHeap) < MaxClipObjects
            /\ availableClipIds' = Tail(availableClipIds)
            /\ clipHeap' = Append(clipHeap, NewClip(loadedSamples[sample]))
            /\ playingClips' =
                  [playingClips EXCEPT ![Head(availableClipIds)] = Len(clipHeap) + 1]
            /\ UNCHANGED run
    /\ UNCHANGED <<fixed, audioVars, errorString, availableSampleIds,
                   loadedSamples, sampleHeap, clipsToFree, clipsInFlight, render, outputBuffer>>

\* A call that writes the fields of one clip: nothing when the slot holds no
\* clip, a read outside the pool for a handle past it.
AudioSystemClipCall(clip, updated) ==
    /\ variant = "AudioSystem" /\ Alive
    /\ IF clip \notin JukeClipSlots
       THEN Undefined /\ UNCHANGED clipHeap
       ELSE IF playingClips[clip] = NULL
       THEN UNCHANGED <<run, clipHeap>>
       ELSE /\ clipHeap' = [clipHeap EXCEPT ![playingClips[clip]] = updated]
            /\ UNCHANGED run
    /\ UNCHANGED <<fixed, audioVars, errorString, availableSampleIds,
                   availableClipIds, loadedSamples, playingClips, sampleHeap,
                   clipsToFree, clipsInFlight, render, outputBuffer>>

AudioSystem_Play(clip) ==
    AudioSystemClipCall(clip, [JukeClipAt(clip) EXCEPT !.paused = FALSE])

AudioSystem_SetVolume(clip, volume) ==
    AudioSystemClipCall(clip, [JukeClipAt(clip) EXCEPT !.volume = volume])

AudioSystem_SetLoop(clip, loop) ==
    AudioSystemClipCall(clip, [JukeClipAt(clip) EXCEPT !.loop = loop])

AudioSystem_SetPan(clip, pan) ==
    AudioSystemClipCall(clip, [JukeClipAt(clip) EXCEPT !.pan = pan])

AudioSystem_IsPlaying(clip) == Juke_IsPlaying(clip)

AudioSystem_Stop(clip) ==
    /\ variant = "AudioSystem" /\ Alive
    /\ IF clip \notin JukeClipSlots
       THEN Undefined /\ UNCHANGED <<playingClips, clipHeap, availableClipIds>>
       ELSE /\ Len(availableClipIds) < MAX_CLIP_COUNT + ExtraReleases
            /\ LET a == AudioSystemStopIn(AudioSystemNow, clip)
               IN  /\ playingClips' = a.playingClips
                   /\ clipHeap' = a.clipHeap
                   /\ availableClipIds' = a.availableClipIds
            /\ UNCHANGED run
    /\ UNCHANGED <<fixed, audioVars, errorString, availableSampleIds,
                   loadedSamples, sampleHeap, clipsToFree, clipsInFlight, render, outputBuffer>>

AudioSystem_paCallback_Enter ==
    /\ variant = "AudioSystem" /\ Alive
    /\ render.at = "idle"
    /\ render' = [at |-> "clip", i |-> 0, f |-> 0, clip |-> NULL]
    /\ UNCHANGED <<fixed, audioVars, jukeVars, run, errorString,
                   availableSampleIds, availableClipIds, outputBuffer>>

AudioSystem_paCallback_Clip ==
    /\ variant = "AudioSystem" /\ Alive
    /\ render.at = "clip"
    /\ render' = IF playingClips[render.i] = NULL
                    \/ clipHeap[playingClips[render.i]].paused
                 THEN JukeAfterClip(render.i)
                 ELSE [render EXCEPT !.at = "frame",
                                     !.clip = playingClips[render.i]]
    /\ UNCHANGED <<fixed, audioVars, jukeVars, run, errorString,
                   availableSampleIds, availableClipIds, outputBuffer>>

\* One turn of the frame loop: Next() twice, whatever the sample.  The clip's
\* sample may be nullptr (Clip of an id that holds no sample).
AudioSystem_paCallback_Frame ==
    /\ variant = "AudioSystem" /\ Alive
    /\ render.at = "frame"
    /\ IF clipHeap[render.clip].status # "live"
          \/ clipHeap[render.clip].sample = NULL
          \/ sampleHeap[clipHeap[render.clip].sample].status # "live"
       THEN Undefined /\ UNCHANGED clipHeap
       ELSE LET a == JukeClipNext(clipHeap[render.clip])
                b == JukeClipNext(a.clip)
            IN  /\ clipHeap' = [clipHeap EXCEPT ![render.clip] = b.clip]
                /\ IF a.oob \/ b.oob
                   THEN run' \in {"ok", "ub"} ELSE UNCHANGED run
    /\ render' = IF render.f + 1 = bufferSize
                 THEN JukeAfterClip(render.i)
                 ELSE [render EXCEPT !.f = @ + 1]
    /\ UNCHANGED <<fixed, audioVars, errorString, availableSampleIds,
                   availableClipIds, loadedSamples, playingClips, sampleHeap,
                   clipsToFree, clipsInFlight, outputBuffer>>

AudioSystemNext ==
    \/ AudioSystem_paCallback_Enter
    \/ AudioSystem_paCallback_Clip
    \/ AudioSystem_paCallback_Frame
    \/ \E file \in Files : AudioSystem_Load(file)
    \/ \E sample \in JukeSampleHandles : AudioSystem_Free(sample)
    \/ \E sample \in JukeSampleHandles : AudioSystem_Clip(sample)
    \/ \E clip \in JukeClipHandles : AudioSystem_Play(clip)
    \/ \E clip \in JukeClipHandles : AudioSystem_Stop(clip)

AudioSystemSetters ==
    \/ \E clip \in JukeClipHandles, volume \in Volumes :
           AudioSystem_SetVolume(clip, volume)
    \/ \E clip \in JukeClipHandles, pan \in Pans : AudioSystem_SetPan(clip, pan)
    \/ \E clip \in JukeClipHandles, loop \in BOOLEAN :
           AudioSystem_SetLoop(clip, loop)

SpecAudioSystem == AudioSystem_Initialize /\ [][AudioSystemNext]_vars

(***************************************************************************)
(* The properties checked of the engine.                                   *)
(***************************************************************************)
\* A step of the control context: the render callback stays where it is.
ControlStep == render' = render

\* A step between two states in which the process still runs defined code.
Defined == run = "ok" /\ run' = "ok"

\* The ids of the Audio pools, and those a free-list holds.
ClipIds == 1..properties.maxClipCount
SampleIds == 1..properties.maxSampleCount
FreeClipIds == {c \in ClipIds : InQueue(c, availableClipIds)}
FreeSampleIds == {s \in SampleIds : InQueue(s, availableSampleIds)}

\* C1: after DestroyClip(c) on a live clip c (an id of the pool that is not in
\* the free-list) has returned, IsClipPlaying(c) is false and a CreateClip
\* issued right then, before any Flush, does not return c.
C1_DestroyedHandleNotReissuedBeforeFlush ==
    [][\A c \in ClipIds :
          (Defined /\ ~InQueue(c, availableClipIds) /\ DestroyClip(c))
          => /\ ~IsClipPlaying(c)'
             /\ \A sample \in SampleIds : CreateClipOutcome(sample)'.val # c]_vars

\* C2: when DestroySample releases the buffer of a sample slot, no clip that
\* the render callback may still process (a Playing clip, or the clip whose
\* frames the callback is producing) points at that slot.
C2_BufferReleasedOnlyWhenUnreferenced ==
    [][\A s \in SampleIds :
          (Defined /\ sampleData[s].data /\ ~sampleData'[s].data)
          => \A i \in ClipSlots :
                clipData'[i].sample = s
                => /\ clipData'[i].state # "Playing"
                   /\ ~(render'.at = "frame" /\ render'.i = i)]_vars

\* C3: while a callback invocation is in the frame loop of a clip slot that
\* is bound to a loaded sample, no control operation frees or rebinds that
\* slot, nor releases the sample buffer the slot is bound to.
C3_RenderedSlotNotFreedOrRebound ==
    [][(Defined /\ ControlStep /\ render.at = "frame"
        /\ ReadOk(clipData[render.i]))
       => /\ clipData'[render.i].sample = clipData[render.i].sample
          /\ sampleData'[clipData[render.i].sample]
                = sampleData[clipData[render.i].sample]]_vars

\* The calls of namespace Audio that take a handle, each with handle 0.
AudioCallWithHandleZero ==
    \/ CreateClip(0)
    \/ DestroySample(0)
    \/ PlaySample(0)
    \/ DestroyClip(0)
    \/ Play(0)
    \/ Pause(0)
    \/ \E volume \in Volumes : SetClipVolume(0, volume)
    \/ \E pan \in Pans : SetClipPan(0, pan)
    \/ \E count \in LoopCounts : SetClipLoop(0, count)
    \/ \E position \in Positions : SetClipPosition(0, position)

\* The calls of Juke that take a clip handle or clip a sample, each with 0.
JukeCallWithHandleZero == Juke_Play(0) \/ Juke_Clip(0) \/ Juke_Stop(0)

\* What the calls with handle 0 return, and slot 0 of each pool.
HandleZeroFails ==
    /\ variant = "Audio"
       => /\ CreateClipOutcome(0).val = 0
          /\ PlaySampleResult(0) = 0
          /\ GetClipVolume(0) = 0
          /\ GetClipPan(0) = 0
          /\ GetClipLoop(0) = 0
          /\ ~IsClipPlaying(0)
          /\ clipData[0] = ClipDataDefault
          /\ sampleData[0] = SampleDataDefault
    /\ variant = "Juke"
       => /\ Juke_ClipResult(0) = 0
          /\ ~Juke_IsPlaying(0)
          /\ playingClips[0] = NULL

C5_HandleZeroNeverIssued ==
    [][Defined
       => /\ \A file \in Files :
                /\ (CreateSample(file) /\ sampleData' # sampleData)
                   => CreateSampleResult(file) \in SampleIds
                /\ (Juke_Load(file) /\ loadedSamples' # loadedSamples)
                   => Juke_LoadResult(file) \in 1..(MAX_SAMPLE_COUNT - 1)
                /\ (AudioSystem_Load(file) /\ loadedSamples' # loadedSamples)
                   => AudioSystem_LoadResult \in 1..(MAX_SAMPLE_COUNT - 1)
          /\ \A sample \in SampleHandles :
                (CreateClip(sample) /\ availableClipIds' # availableClipIds)
                => CreateClipOutcome(sample).val \in ClipIds
          /\ \A sample \in JukeSampleHandles :
                /\ (Juke_Clip(sample) /\ playingClips' # playingClips)
                   => Juke_ClipResult(sample) \in 1..(MAX_CLIP_COUNT - 1)
                /\ (AudioSystem_Clip(sample) /\ playingClips' # playingClips)
                   => AudioSystem_ClipResult \in 1..(MAX_CLIP_COUNT - 1)]_vars

\* C6: when a pool is exhausted (its free-list is empty), the next creation
\* fails: it returns 0, records an error, changes no slot and no free-list, and
\* the process goes on.
C6_ExhaustedPoolRefusesCreate ==
    [][Alive
       => /\ \A sample \in SampleIds :
                (availableClipIds = <<>> /\ CreateClip(sample))
                => /\ CreateClipOutcome(sample).val = 0
                   /\ errorString' # <<>>
                   /\ UNCHANGED <<sampleData, clipData, availableSampleIds,
                                  availableClipIds, run>>
          /\ \A file \in Files :
                (availableSampleIds = <<>> /\ CreateSample(file))
                => /\ CreateSampleResult(file) = 0
                   /\ errorString' # <<>>
                   /\ UNCHANGED <<sampleData, clipData, availableSampleIds,
                                  availableClipIds, run>>
          /\ \A sample \in 1..(MAX_SAMPLE_COUNT - 1) :
                (availableClipIds = <<>> /\ loadedSamples[sample] # NULL
                 /\ Juke_Clip(sample))
                => /\ Juke_ClipResult(sample) = 0
                   /\ errorString' # <<>>
                   /\ UNCHANGED <<loadedSamples, playingClips, sampleHeap,
                                  clipHeap, availableSampleIds,
                                  availableClipIds, run>>]_vars

\* C7: a release of a clip (DestroyClip of an id of the pool) after which
\* exactly one slot of the pool is free permits exactly one more allocation:
\* the next CreateClip succeeds and leaves the free-list empty, so that the one
\* after it fails.
C7_OneReleaseOneAllocation ==
    [][\A c \in ClipIds :
          (Defined /\ DestroyClip(c) /\ Cardinality(FreeClipIds') = 1)
          => \A sample \in SampleIds :
                /\ CreateClipOutcome(sample)'.val # 0
                /\ CreateClipOutcome(sample)'.ids = <<>>]_vars

\* A queue that holds no id twice.
NoDuplicate(q) == \A i, j \in 1..Len(q) : i # j => q[i] # q[j]

\* C8: each free-list holds no id twice and no id of a live slot (a sample
\* slot that holds a buffer), and holds ids of the pool only.
C8_FreeListsHoldEachFreeIdOnce ==
    (variant = "Audio" /\ Alive)
    => /\ NoDuplicate(availableClipIds)
       /\ NoDuplicate(availableSampleIds)
       /\ \A i \in 1..Len(availableClipIds) : availableClipIds[i] \in ClipIds
       /\ \A i \in 1..Len(availableSampleIds) :
             /\ availableSampleIds[i] \in SampleIds
             /\ ~sampleData[availableSampleIds[i]].data

\* C9: when DestroySample(s) on a loaded sample s returns, no clip slot is
\* bound to s any more (so none bound to s is Playing).
C9_DestroySampleStopsBoundClips ==
    [][\A s \in SampleIds :
          (Defined /\ sampleData[s].data /\ DestroySample(s))
          => \A i \in ClipSlots : clipData'[i].sample # s]_vars

\* C10: DestroySample(h) for h = 0, h past the pool, or h a slot that holds no
\* sample changes neither pool nor the sample free-list, and the process goes
\* on.
C10_DestroySampleOfFreeHandleIsNoOp ==
    [][\A h \in SampleHandles :
          (Alive /\ DestroySample(h)
           /\ (h = 0 \/ h \notin SampleSlots \/ ~sampleData[h].data))
          => UNCHANGED <<sampleData, clipData, availableSampleIds, run>>]_vars

\* C11: CreateClip(s) for s = 0, s past the pool, or s a slot that holds no
\* loaded sample returns 0, pops no clip id and binds no clip slot.
C11_CreateClipRefusesUnloadedSample ==
    [][\A s \in SampleHandles :
          (Alive /\ CreateClip(s)
           /\ (s = 0 \/ s \notin SampleSlots \/ ~sampleData[s].data))
          => /\ CreateClipOutcome(s).val = 0
             /\ UNCHANGED <<clipData, availableClipIds, run>>]_vars

\* The calls of namespace Audio that work on a clip, for the handle clip.
ClipCall(clip) ==
    \/ Play(clip)
    \/ Pause(clip)
    \/ DestroyClip(clip)
    \/ \E volume \in Volumes : SetClipVolume(clip, volume)
    \/ \E pan \in Pans : SetClipPan(clip, pan)
    \/ \E count \in LoopCounts : SetClipLoop(clip, count)
    \/ \E position \in Positions : SetClipPosition(clip, position)

\* C12: Play, Pause, DestroyClip and the setters, called with a nonzero handle
\* that is past the pool or whose slot is free (its id is in the free-list),
\* change no clip slot, leave the number of Playing clips and the clip
\* free-list as they are, and the process goes on.
C12_ClipCallOnFreeSlotRejected ==
    [][\A c \in ClipHandles \ {0} :
          (Alive /\ ClipCall(c)
           /\ (c \notin ClipSlots \/ InQueue(c, availableClipIds)))
          => /\ UNCHANGED <<clipData, availableClipIds, run>>
             /\ GetPlayingClipCount' = GetPlayingClipCount]_vars

\* The clip the callback of Juke is producing frames of, and its sample.
JukeRendered == clipHeap[render.clip]
JukeRenderedSample == sampleHeap[JukeRendered.sample]

\* The callback is about to produce a frame of a clip that stands inside a
\* mono sample and does not loop.  Audio: a Playing clip with loopCount 0 on a
\* buffer marked mono.  Juke: the files have MaxFrames frames, so the buffer
\* of MaxFrames floats is the one loaded from the mono file.
AudioFrameOfMonoClip ==
    /\ variant = "Audio" /\ Alive /\ render.at = "frame"
    /\ clipData[render.i].state = "Playing"
    /\ clipData[render.i].loopCount = 0
    /\ ReadOk(clipData[render.i])
    /\ sampleData[clipData[render.i].sample].mono
    /\ PortAudioCallback_Frame

JukeFrameOfMonoClip ==
    /\ variant = "Juke" /\ Alive /\ render.at = "frame"
    /\ JukeRendered.status = "live"
    /\ JukeRenderedSample.status = "live"
    /\ JukeRenderedSample.size = MaxFrames
    /\ ~JukeRendered.loop /\ ~JukeRendered.complete
    /\ JukeRendered.position < JukeRenderedSample.size
    /\ Juke_paCallback_Frame

\* C13: a frame rendered of a non-looping clip on a mono sample of N frames
\* reads the sample at the cursor, inside the buffer, and moves the cursor by
\* one; the clip is Complete after it exactly when that was the frame at
\* cursor N-1.  So a clip started at cursor 0 reads 0..N-1 in order and is
\* Complete after exactly N frames, not before.
C13_MonoClipCompleteAfterNFrames ==
    [][/\ AudioFrameOfMonoClip
          => /\ run' = "ok"
             /\ clipData'[render.i].sampleIndex = clipData[render.i].sampleIndex + 1
             /\ clipData'[render.i].state = "Complete"
                <=> clipData[render.i].sampleIndex + 1
                       = sampleData[clipData[render.i].sample].length
       /\ JukeFrameOfMonoClip
          => /\ ~JukeFrame(JukeRendered).oob
             /\ clipHeap'[render.clip].position = JukeRendered.position + 1
             /\ clipHeap'[render.clip].complete
                <=> JukeRendered.position + 1 = JukeRenderedSample.size]_vars

\* The clip the callback of Audio is producing frames of, its sample, and the
\* number of samples one frame takes from it.
Rendered == clipData[render.i]
RenderedSample == sampleData[Rendered.sample]
SamplesPerFrame == IF RenderedSample.mono THEN 1 ELSE 2

\* The loop counter that stands for "loop for ever": SetClipLoop(clip, -1).
InfiniteLoop == UInt32 - 1

\* The callback produces a frame of a Playing clip whose frame lies inside its
\* loaded sample.
AudioFrameOfPlayingClip ==
    /\ variant = "Audio" /\ Alive /\ render.at = "frame"
    /\ Rendered.state = "Playing"
    /\ ReadOk(Rendered)
    /\ Rendered.sampleIndex + SamplesPerFrame <= RenderedSample.length
    /\ PortAudioCallback_Frame

\* The frame the callback produces is the last of a pass over the sample.
LastFrameOfPass ==
    Rendered.sampleIndex + SamplesPerFrame = RenderedSample.length

\* C14: a frame of a Playing clip with a finite loop counter k: inside a pass
\* the cursor moves on and k stays; the last frame of a pass with k > 0 wraps
\* the cursor to 0 and leaves k - 1, the clip still Playing; the last frame of a
\* pass with k = 0 completes the clip, the counter being 0.  So a clip started
\* at cursor 0 with loopCount = k plays k + 1 passes.
C14_FiniteLoopPlaysKPlusOnePasses ==
    [][(AudioFrameOfPlayingClip /\ Rendered.loopCount # InfiniteLoop)
       => LET after == clipData'[render.i]
          IN  IF ~LastFrameOfPass
              THEN /\ after.state = "Playing"
                   /\ after.sampleIndex = Rendered.sampleIndex + SamplesPerFrame
                   /\ after.loopCount = Rendered.loopCount
              ELSE IF Rendered.loopCount > 0
              THEN /\ after.state = "Playing"
                   /\ after.sampleIndex = 0
                   /\ after.loopCount = Rendered.loopCount - 1
              ELSE /\ after.state = "Complete"
                   /\ after.loopCount = 0]_vars

\* The clip, set to loop twice over the mono file of LongFrames frames, is in
\* its second pass: one wrap has brought the counter from 2 to 1.
C14_Witness ==
    /\ variant = "Audio" /\ Alive
    /\ clipData[1].state = "Playing"
    /\ clipData[1].loopCount = 1
    /\ clipData[1].sampleIndex = 1
    /\ sampleData[1].data /\ sampleData[1].mono
    /\ sampleData[1].length = LongFrames
    /\ clipData[1].sample = 1

\* C15: a frame of a Playing clip whose loop counter is InfiniteLoop leaves the
\* clip Playing and the counter as it is; the last frame of a pass wraps the
\* cursor to 0, any other moves it on.  Rendering never completes the clip.
C15_InfiniteLoopNeverCompletes ==
    [][(AudioFrameOfPlayingClip /\ Rendered.loopCount = InfiniteLoop)
       => LET after == clipData'[render.i]
          IN  /\ after.state = "Playing"
              /\ after.loopCount = InfiniteLoop
              /\ after.sampleIndex =
                    IF LastFrameOfPass
                    THEN 0 ELSE Rendered.sampleIndex + SamplesPerFrame]_vars

\* The callback has produced the first frame of its buffer from the clip that
\* loops for ever over a mono file, and stands before the last frame of a pass.
C15_Witness ==
    /\ variant = "Audio" /\ Alive
    /\ render = [at |-> "frame", i |-> 1, f |-> 1, clip |-> NULL]
    /\ clipData[1].state = "Playing"
    /\ clipData[1].loopCount = InfiniteLoop
    /\ clipData[1].sample = 1
    /\ sampleData[1].data /\ sampleData[1].mono
    /\ clipData[1].sampleIndex + 1 = sampleData[1].length

\* C16: Play(c) on a Paused clip sets its state to Playing and leaves the
\* cursor, the volume, the pan, the loop count and the sample binding as they
\* are.  Juke: Play on a paused clip clears paused and leaves position, volume,
\* pan, loop and sample as they are.
C16_PlayResumesPausedClip ==
    [][/\ \A c \in ClipIds :
             (variant = "Audio" /\ Alive /\ clipData[c].state = "Paused"
              /\ Play(c))
             => clipData'[c] = [clipData[c] EXCEPT !.state = "Playing"]
       /\ \A c \in JukeClipSlots :
             (variant = "Juke" /\ Alive /\ playingClips[c] # NULL
              /\ JukeClipAt(c).paused /\ Juke_Play(c))
             => clipHeap'[playingClips[c]]
                   = [JukeClipAt(c) EXCEPT !.paused = FALSE]]_vars

\* The callback is idle and the clip is Playing in the middle of the mono file
\* of LongFrames frames, bound to it with its fields as CreateClip set them: a
\* clip suspended after its first frame and resumed.
C16_Witness ==
    /\ variant = "Audio" /\ Alive
    /\ render = RenderIdle
    /\ clipData[1] = [ClipDataDefault EXCEPT !.sample = 1, !.state = "Playing",
                                             !.sampleIndex = 1]
    /\ sampleData[1].data /\ sampleData[1].length = LongFrames

\* C17: in every state, Play(c) on a clip that is Playing leaves it Playing
\* with its cursor at 0.  Juke: Play on a clip that IsPlaying leaves it
\* playing at position 0.
C17_PlayRestartsPlayingClip ==
    /\ \A c \in ClipIds :
          (variant = "Audio" /\ Alive /\ clipData[c].state = "Playing")
          => ~ENABLED (/\ Play(c)
                       /\ ~(/\ clipData'[c].state = "Playing"
                            /\ clipData'[c].sampleIndex = 0))
    /\ \A c \in JukeClipSlots :
          (variant = "Juke" /\ Alive /\ Juke_IsPlaying(c))
          => ~ENABLED (/\ Juke_Play(c)
                       /\ ~(/\ Juke_IsPlaying(c)'
                            /\ clipHeap'[playingClips[c]].position = 0))

\* C18: Pause(c) on a Playing clip sets its state to Paused and leaves the
\* cursor, the volume, the pan, the loop count and the binding as they are; a
\* step of the callback changes no Paused clip, and a frame produced of a
\* Paused clip reads nothing of its sample.
C18_PauseKeepsCursor ==
    [][/\ \A c \in ClipIds :
             (variant = "Audio" /\ Alive /\ clipData[c].state = "Playing"
              /\ Pause(c))
             => clipData'[c] = [clipData[c] EXCEPT !.state = "Paused"]
       /\ (variant = "Audio" /\ Alive /\ ~ControlStep)
          => \A c \in ClipSlots :
                clipData[c].state = "Paused" => clipData'[c] = clipData[c]
       /\ (variant = "Audio" /\ Alive /\ render.at = "frame"
           /\ Rendered.state = "Paused" /\ PortAudioCallback_Frame)
          => UNCHANGED <<clipData, run>>]_vars

\* The clip was suspended in the frame loop of the callback, after the first
\* frame of the mono file of LongFrames frames: the callback stands before the
\* second frame of its buffer, the clip is Paused at cursor 1.
C18_Witness ==
    /\ variant = "Audio" /\ Alive
    /\ render = [at |-> "frame", i |-> 1, f |-> 1, clip |-> NULL]
    /\ clipData[1].state = "Paused"
    /\ clipData[1].sample = 1
    /\ clipData[1].sampleIndex = 1
    /\ sampleData[1].data /\ sampleData[1].length = LongFrames

\* C19: a clip slot that is Complete stays Complete in every step but a Flush,
\* which resets it: neither Play nor Pause nor the callback changes its state.
C19_CompleteLeftOnlyThroughFlush ==
    [][\A c \in ClipIds :
          (variant = "Audio" /\ Defined /\ clipData[c].state = "Complete")
          => \/ clipData'[c] = clipData[c]
             \/ Flush /\ clipData'[c] = ClipDataDefault]_vars

\* C20: in every state, Flush() called now returns true exactly when a clip is
\* playing (its slot holds a clip that is neither paused nor complete) when it
\* returns.
C20_FlushReturnsWhetherAnyClipPlays ==
    (variant = "Juke" /\ Alive)
    => LET j == StopComplete(JukeNow, 1)
       IN  Juke_FlushResult
           <=> \E c \in JukeClipSlots :
                  /\ j.playingClips[c] # NULL
                  /\ ~clipHeap[j.playingClips[c]].complete
                  /\ ~clipHeap[j.playingClips[c]].paused

\* How many times the queue q holds id.
Occurrences(id, q) == Cardinality({k \in 1..Len(q) : q[k] = id})

\* What a Flush leaves: no slot Complete; each slot that was Complete in its
\* default state (no sample bound) and its id once more in the free-list;
\* every other slot and the count of its id as they were.
FlushedAll ==
    \A i \in ClipSlots :
       /\ clipData'[i].state # "Complete"
       /\ IF clipData[i].state = "Complete"
          THEN /\ clipData'[i] = ClipDataDefault
               /\ Occurrences(i, availableClipIds')
                     = Occurrences(i, availableClipIds) + 1
          ELSE /\ clipData'[i] = clipData[i]
               /\ Occurrences(i, availableClipIds')
                     = Occurrences(i, availableClipIds)

\* C21: in every state in which the render callback is idle, a Flush() called
\* now leaves no clip slot Complete: each slot that was Complete is detached
\* from its sample and back in its default state, and its handle has been
\* appended to the clip free-list exactly once; the other slots are untouched.
C21_FlushLeavesNoCompleteSlot ==
    (variant = "Audio" /\ Alive /\ render = RenderIdle)
    => ~ENABLED (Flush /\ ~FlushedAll)

\* Both clips of the pool have run to the end of their sample, the callback
\* is idle, and Flush can be called.
C21_Witness ==
    /\ variant = "Audio" /\ Alive /\ render = RenderIdle
    /\ \A c \in ClipIds : clipData[c].state = "Complete" /\ clipData[c].sample = 1
    /\ Cardinality(ClipIds) = maxClipCount
    /\ ENABLED Flush

\* C22: whenever the render callback has returned, every float of the
\* interleaved output buffer it filled lies in [-1.0, 1.0] (-100..100 in
\* hundredths), however many clips played into it.
C22_OutputWithinUnitRange ==
    (variant = "Audio" /\ Alive /\ render = RenderIdle)
    => \A k \in DOMAIN outputBuffer : outputBuffer[k] \in (-100)..100

\* The callback produces a frame of a Playing clip that stands inside a loaded
\* mono sample of nonzero amplitude, at volume 1.
AudioFrameOfLoudMonoClip ==
    /\ AudioFrameOfPlayingClip
    /\ RenderedSample.mono
    /\ RenderedSample.amplitude # 0
    /\ Rendered.volume = 100

\* C23: a frame of a Playing clip on a mono sample adds nothing to the right
\* channel of the output when the clip's pan is -1, and nothing to the left
\* channel when its pan is +1.
C23_PanAppliedToMonoClip ==
    [][AudioFrameOfLoudMonoClip
       => /\ Rendered.pan = -100
             => outputBuffer'[2 * render.f + 2] = outputBuffer[2 * render.f + 2]
          /\ Rendered.pan = 100
             => outputBuffer'[2 * render.f + 1] = outputBuffer[2 * render.f + 1]]_vars

\* The fraction q = num / den lies within frames sample frames of the
\* position p (in hundredths), of a sample of length floats that takes
\* perFrame floats for a frame: |q - p / 100| <= frames * perFrame / length.
WithinFrames(q, p, frames, perFrame, length) ==
    LET d == 100 * q.num * length - p * q.den * length
    IN  /\ q.den > 0
        /\ d <= 100 * q.den * frames * perFrame
        /\ -d <= 100 * q.den * frames * perFrame

\* Clip c is bound to a loaded sample of at least one float.
BoundToLoadedSample(c) ==
    /\ clipData[c].sample \in SampleIds
    /\ sampleData[clipData[c].sample].data
    /\ sampleData[clipData[c].sample].length >= 1

\* C24: in every state, for a clip c bound to a loaded sample of length L >= 1
\* and a position p in [0, 1) that is a multiple of a quarter (0.5 among
\* them), SetClipPosition(c, p) called now leaves a state in which
\* GetClipPosition(c) is within one sample frame of p (1/L for a mono sample,
\* 2/L for a stereo sample).
C24_PositionRoundTrip ==
    \A c \in ClipIds, p \in Quarters :
       (variant = "Audio" /\ Alive /\ BoundToLoadedSample(c))
       => ~ENABLED
             (/\ SetClipPosition(c, p)
              /\ ~WithinFrames(GetClipPosition(c)', p, 1,
                               IF sampleData[clipData[c].sample].mono THEN 1 ELSE 2,
                               sampleData[clipData[c].sample].length))

\* The clip, never played, stands at three quarters of the mono file of
\* QuarterFrames frames: SetClipPosition(1, 0.75) has set its cursor.
C24_Witness ==
    /\ variant = "Audio" /\ Alive
    /\ BoundToLoadedSample(1)
    /\ sampleData[1].mono /\ sampleData[1].length = QuarterFrames
    /\ clipData[1].sampleIndex * 4 = 3 * sampleData[1].length

\* C25: the render callback never faults: every frame it produces, of whatever
\* clip the pools hold, reads its sample inside an allocated buffer or reads
\* nothing, and a frame that reads nothing adds nothing to the output.
C25_CallbackNeverFaults ==
    [][(variant = "Audio" /\ Alive /\ PortAudioCallback_Frame)
       => /\ run' = "ok"
          /\ ~ReadOk(Rendered) => outputBuffer' = outputBuffer]_vars

\* How the messages of each operation begin.
CreateSampleErrors == {"Error creating sample '", "Error loading sample '"}
DestroySampleErrors == {"Error destroying sample: Invalid sample."}
CreateClipErrors ==
    {"Error creating clip: Invalid sample.",
     "Error creating clip: No available clip IDs."}
PlaySampleErrors == {"Error playing sample: Invalid sample.", "Error playing sample: "}

\* GetErrorString() returns a message that begins as one of heads.
ErrorFrom(heads) == GetErrorString # <<>> /\ Head(GetErrorString) \in heads

\* GetErrorString() returns a message, and not one of another operation.
ErrorOfClipCall ==
    /\ GetErrorString # <<>>
    /\ Head(GetErrorString) \notin CreateSampleErrors \cup DestroySampleErrors
                                      \cup CreateClipErrors \cup PlaySampleErrors

\* C26: in every state, a control call that fails now (a CreateSample,
\* CreateClip or PlaySample that returns 0, DestroySample(0), and Play, Pause,
\* DestroyClip or a setter given handle 0) leaves a state in which
\* GetErrorString() returns a message of that operation.
C26_FailedCallSetsErrorString ==
    (variant = "Audio" /\ Alive)
    => /\ \A file \in Files :
             CreateSampleResult(file) = 0
             => ~ENABLED (CreateSample(file) /\ ~ErrorFrom(CreateSampleErrors)')
       /\ \A sample \in SampleIds \cup {0} :
             /\ CreateClipOutcome(sample).val = 0
                => ~ENABLED (CreateClip(sample) /\ ~ErrorFrom(CreateClipErrors)')
             /\ PlaySampleResult(sample) = 0
                => ~ENABLED (PlaySample(sample) /\ ~ErrorFrom(PlaySampleErrors)')
       /\ ~ENABLED (DestroySample(0) /\ ~ErrorFrom(DestroySampleErrors)')
       /\ ~ENABLED (ClipCall(0) /\ ~ErrorOfClipCall')

\* C27: in every state of an initialized engine, CreateSample of a decoded
\* file whose channel count is neither 1 nor 2, or whose sample rate is not
\* the rate the engine was initialized with (properties.sampleRate), returns 0,
\* records an error of CreateSample, pops no sample id and changes no sample
\* slot.
C27_CreateSampleChecksEngineRate ==
    (variant = "Audio" /\ Alive /\ gData = "allocated")
    => \A file \in RateFiles :
          (file.channels \notin {1, 2} \/ file.samplerate # properties.sampleRate)
          => /\ CreateSampleResult(file) = 0
             /\ ~ENABLED (/\ CreateSample(file)
                          /\ ~(/\ ErrorFrom(CreateSampleErrors)'
                               /\ UNCHANGED <<availableSampleIds, sampleData>>))

\* C28: an Initialize on an engine not yet initialized during which the device
\* fails (Pa_Initialize, no default device, Pa_OpenStream or Pa_StartStream)
\* returns false and leaves the stream not started, in a state in which a
\* further Initialize on a working device returns true.
C28_FailedInitializeCanBeRepeated ==
    [][\A props \in EngineProperties, pa \in DeviceAnswers \ {"ok"} :
          (gData = "nullptr" /\ InitializeCall(props, pa))
          => /\ ~InitializeResult(pa)
             /\ stream' # "started"
             /\ InitializeResult("ok")']_vars

\* C29: cancellation takes effect at the next callback boundary.  Pause(c) and
\* DestroyClip(c) leave the slot not Playing, and only Play(c) or PlaySample
\* makes a slot Playing again; a callback that comes to the head of a slot
\* that is not Playing passes on to the next slot, leaving the clips and the
\* output as they are; and a frame produced of a slot that is not Playing
\* moves no cursor and adds nothing to the output.  Juke: Stop(c) empties the
\* slot, only Clip fills it again, and a callback that comes to the head of
\* an empty slot passes on, leaving every clip as it is.
C29_CancelledClipNotRendered ==
    [][/\ (variant = "Audio" /\ Defined)
          => /\ \A c \in ClipIds :
                   /\ (Pause(c) \/ DestroyClip(c))
                      => clipData'[c].state # "Playing"
                   /\ (clipData[c].state # "Playing"
                       /\ clipData'[c].state = "Playing")
                      => Play(c) \/ \E sample \in SampleIds : PlaySample(sample)
             /\ (PortAudioCallback_Clip /\ Rendered.state # "Playing")
                => /\ render' = AfterClip(render.i)
                   /\ UNCHANGED <<clipData, outputBuffer>>
             /\ (PortAudioCallback_Frame /\ Rendered.state # "Playing")
                => UNCHANGED <<clipData, outputBuffer>>
       /\ (variant = "Juke" /\ Defined)
          => /\ \A c \in JukeClipSlots :
                   /\ Juke_Stop(c) => playingClips'[c] = NULL
                   /\ (playingClips[c] = NULL /\ playingClips'[c] # NULL)
                      => \E sample \in JukeSampleSlots : Juke_Clip(sample)
             /\ (Juke_paCallback_Clip /\ playingClips[render.i] = NULL)
                => /\ render' = JukeAfterClip(render.i)
                   /\ UNCHANGED clipHeap]_vars

\* The callback has passed slot 1, whose clip, bound to a loaded sample of
\* full amplitude, is Paused before the end of the sample, and the output
\* buffer holds silence: the clip was played, paused, and skipped.
C29_Witness ==
    /\ variant = "Audio" /\ Alive
    /\ render = [at |-> "clip", i |-> 2, f |-> 0, clip |-> NULL]
    /\ clipData[1].state = "Paused"
    /\ ReadOk(clipData[1])
    /\ sampleData[clipData[1].sample].amplitude = 100
    /\ outputBuffer = Silence(properties.bufferSize)

\* A step of the render callback of namespace Audio.
CallbackStep ==
    PortAudioCallback_Enter \/ PortAudioCallback_Clip \/ PortAudioCallback_Frame

\* What a step leaves of clip slot c apart from its loop counter: the volume,
\* the pan and the binding as they were, the state as it was or Complete
\* after Playing.
OnlyCursorAndCompletion(c) ==
    /\ clipData'[c].volume = clipData[c].volume
    /\ clipData'[c].pan = clipData[c].pan
    /\ clipData'[c].sample = clipData[c].sample
    /\ \/ clipData'[c].state = clipData[c].state
       \/ clipData[c].state = "Playing" /\ clipData'[c].state = "Complete"

\* C30, as stated: a step of the render callback changes, of any clip slot,
\* only the cursor and Playing to Complete; it changes no volume, pan, loop
\* counter or binding, no state of a slot that is not Playing, no sample slot
\* and no free-list.
C30_CallbackMutatesOnlyCursor ==
    [][(variant = "Audio" /\ Defined /\ CallbackStep)
       => /\ \A c \in ClipSlots :
                /\ OnlyCursorAndCompletion(c)
                /\ clipData'[c].loopCount = clipData[c].loopCount
          /\ UNCHANGED <<sampleData, availableSampleIds, availableClipIds>>]_vars

\* C30, amended: a step of the render callback changes, of any clip slot,
\* only the cursor, the loop counter and Playing to Complete; the loop
\* counter it only decrements, by one, of a Playing clip whose counter is
\* neither 0 nor InfiniteLoop and that stays Playing; it changes no volume,
\* pan or binding, no state of a slot that is not Playing, no sample slot and
\* no free-list.
C30_CallbackMutatesCursorAndLoopCount ==
    [][(variant = "Audio" /\ Defined /\ CallbackStep)
       => /\ \A c \in ClipSlots :
                /\ OnlyCursorAndCompletion(c)
                /\ \/ clipData'[c].loopCount = clipData[c].loopCount
                   \/ /\ clipData[c].state = "Playing"
                      /\ clipData'[c].state = "Playing"
                      /\ clipData[c].loopCount \notin {0, InfiniteLoop}
                      /\ clipData'[c].loopCount = clipData[c].loopCount - 1
                      /\ clipData'[c].sampleIndex < SamplesPerFrame
          /\ UNCHANGED <<sampleData, availableSampleIds, availableClipIds>>]_vars

\* The first frame of a buffer has wrapped the cursor of the clip, set to loop
\* twice over a file of MaxFrames frames, and brought its counter from 2 to 1.
C30_Witness ==
    /\ variant = "Audio" /\ Alive
    /\ render = [at |-> "frame", i |-> 1, f |-> 1, clip |-> NULL]
    /\ clipData[1].state = "Playing"
    /\ clipData[1].loopCount = 1
    /\ clipData[1].sampleIndex = 0
    /\ ReadOk(clipData[1])
    /\ sampleData[clipData[1].sample].length = MaxFrames

\* The queue q2 is the queue q, its tail, or q with ids appended: nothing was
\* taken but at the head, nothing put but at the tail, and the ids that stay
\* keep their order.
QueueStep(q, q2) ==
    \/ Len(q2) >= Len(q) /\ SubSeq(q2, 1, Len(q)) = q
    \/ q # <<>> /\ q2 = Tail(q)

\* C31: the clip handles are recycled in FIFO order.  A fresh pool holds the
\* ids 1, 2, 3, ... in ascending order, and while the free-list is what is
\* left of that order a creation returns its least id; every creation that
\* succeeds returns the id at the head of the free-list and removes that one;
\* every release puts its id at the tail; and no step changes the free-list
\* in any other way, so a released id is behind every id the list held when
\* it was released.
C31_HandlesRecycledInFifoOrder ==
    /\ variant = "Audio"
       => availableClipIds = IdsFrom(1, properties.maxClipCount)
    /\ [](variant = "Audio"
          => \A k \in ClipIds, sample \in SampleIds :
                availableClipIds = IdsFrom(k, properties.maxClipCount)
                => CreateClipOutcome(sample).val = k)
    /\ [][variant = "Audio"
          => /\ \A sample \in SampleIds :
                   /\ (CreateClip(sample) /\ CreateClipOutcome(sample).val # 0)
                      => /\ CreateClipOutcome(sample).val = Head(availableClipIds)
                         /\ availableClipIds' = Tail(availableClipIds)
                   /\ (PlaySample(sample) /\ PlaySampleResult(sample) # 0)
                      => /\ PlaySampleResult(sample) = Head(availableClipIds)
                         /\ availableClipIds' = Tail(availableClipIds)
             /\ \A clip \in ClipIds :
                   DestroyClip(clip)
                   => availableClipIds' = Append(availableClipIds, clip)
             /\ QueueStep(availableClipIds, availableClipIds')]_vars

\* Clip 1 was created and released while the free-list held the ids 2 and
\* 3: its id stands behind them, and the next creation returns 2.
C31_Witness ==
    /\ variant = "Audio" /\ Alive
    /\ availableClipIds = <<2, 3, 1>>
    /\ sampleData[1].data
    /\ \A sample \in SampleIds : CreateClipOutcome(sample).val = 2

\* The clip a caller expects of CreateClip(sample): Paused, bound to sample,
\* cursor 0, volume 1, pan 0, loop count 0.
FreshClip(sample) ==
    [sample |-> sample, state |-> "Paused", sampleIndex |-> 0, volume |-> 100,
     pan |-> 0, loopCount |-> 0]

\* C32: in every state, a CreateClip(s) called now on a sample id s of the
\* pool that succeeds leaves the slot of the handle it returns Paused, bound
\* to s, with cursor 0, volume 1, pan 0 and loop count 0, whatever the slot
\* held before; a frame produced of such a clip reads nothing, adds nothing
\* to either channel and leaves the clip as it is; and a callback that comes
\* to the head of a Paused slot passes on with the output as it is.
C32_CreatedClipIsPausedAndClean ==
    (variant = "Audio" /\ Alive)
    => /\ \A sample \in SampleIds :
             LET o == CreateClipOutcome(sample)
             IN  (o.val # 0 /\ ~o.fault)
                 => /\ o.val \in ClipIds
                    /\ ~ENABLED (/\ CreateClip(sample)
                                 /\ clipData'[o.val] # FreshClip(sample))
                    /\ NextStereo(FreshClip(sample))
                          = [clip |-> FreshClip(sample), fault |-> FALSE,
                             left |-> 0, right |-> 0]
       /\ (render.at = "clip" /\ Rendered.state = "Paused")
          => ~ENABLED (/\ PortAudioCallback_Clip
                       /\ ~(/\ render' = AfterClip(render.i)
                            /\ UNCHANGED <<clipData, outputBuffer>>))

\* The slot of handle 1 is free and dirty (a volume, a pan and a loop count
\* were set on it and it was set Playing), the sample is loaded at full scale,
\* and CreateClip(1) is about to reuse the slot.
C32_Witness ==
    /\ variant = "Audio" /\ Alive
    /\ availableClipIds = <<1>>
    /\ clipData[1].state = "Playing"
    /\ clipData[1].volume = 50 /\ clipData[1].pan = -100 /\ clipData[1].loopCount = 2
    /\ sampleData[1].data /\ sampleData[1].amplitude = 100
    /\ CreateClipOutcome(1).val = 1
    /\ ENABLED CreateClip(1)

\* A step of the render callback of Juke.
JukeCallbackStep ==
    Juke_paCallback_Enter \/ Juke_paCallback_Clip \/ Juke_paCallback_Frame

\* A process of either of the two newer engines, the newest with one clip on
\* loud files, under the scheduling of the driver loop: PortAudio calls the
\* callback again and again, and the control context, when it calls nothing
\* else, calls Flush.
InitAudioOrJukeDriver == InitAudioLoudClip \/ Juke_Initialize

AudioOrJukeDriverNext == AudioLoudClipNext \/ JukeNext

SpecAudioOrJukeDriver ==
    /\ InitAudioOrJukeDriver
    /\ [][AudioOrJukeDriverNext]_vars
    /\ WF_vars(CallbackStep)
    /\ WF_vars(Flush)
    /\ WF_vars(JukeCallbackStep)
    /\ WF_vars(Juke_Flush)

\* A step of the driver loop: the callback, or the Flush of the loop.
DriverStep == CallbackStep \/ Flush \/ JukeCallbackStep \/ Juke_Flush

\* No clip bound to a sample and set to loop a finite number of times is
\* Playing: "while (GetPlayingClipCount() > 0) Flush();" is left unless a
\* clip loops for ever.
NoFiniteClipPlaying ==
    \A c \in ClipSlots :
       (clipData[c].state = "Playing" /\ clipData[c].sample # NULL)
       => clipData[c].loopCount = InfiniteLoop

\* The driver loop of namespace Audio: when from some point on every step is
\* a step of the callback or a Flush, every Playing clip with a finite loop
\* count comes to be Complete, unless the process has run into undefined
\* behaviour.
AudioDriverLoopTerminates ==
    (variant = "Audio" /\ <>[][DriverStep]_vars)
    => []<>(variant = "Audio" => (~Alive \/ NoFiniteClipPlaying))

\* The driver loop of Juke, "while (Flush())": when from some point on every
\* step is a step of the callback or a Flush, no clip being set to loop, a
\* Flush comes to return false, unless the process has run into undefined
\* behaviour.
JukeDriverLoopTerminates ==
    (variant = "Juke" /\ <>[][DriverStep]_vars)
    => []<>(variant = "Juke" => (~Alive \/ ~Juke_FlushResult))

\* C33: under fair scheduling of the render callback and of the Flush of the
\* driver loop, and with no further control operation, every Playing clip
\* with a finite loop count eventually reaches Complete, and the driver loop
\* of either engine is eventually left.
C33_DriverLoopTerminates ==
    AudioDriverLoopTerminates /\ JukeDriverLoopTerminates

\* C34: in every state, for a clip c bound to a loaded sample and a position p
\* in [0, 1] (1.0 among them), SetClipPosition(c, p) called now leaves the
\* cursor inside the sample: 0 <= cursor < length, so that the next read of
\* the callback is a read inside the buffer.
C34_PositionStaysInsideSample ==
    \A c \in ClipIds, p \in Positions :
       (variant = "Audio" /\ Alive /\ BoundToLoadedSample(c))
       => ~ENABLED
             (/\ SetClipPosition(c, p)
              /\ ~(/\ clipData'[c].sampleIndex >= 0
                   /\ clipData'[c].sampleIndex
                         < sampleData[clipData[c].sample].length
                   /\ ReadOk(clipData'[c])))

\* C35: a clip only plays the sample it was created from.  When CreateSample
\* stores a new sample in slot s, a clip that is bound to s and has moved its
\* cursor into an earlier sample of that slot is not left bound to s and
\* Playing, where the next callback would take its frames from the new
\* sample's data.
C35_ClipPlaysOnlyItsOwnSample ==
    [][\A s \in SampleIds, c \in ClipIds :
          (/\ variant = "Audio" /\ Defined
           /\ \E file \in LoudFiles :
                 CreateSample(file) /\ CreateSampleResult(file) = s
           /\ sampleData'[s].data
           /\ clipData[c].sample = s
           /\ clipData[c].sampleIndex > 0)
          => ~(clipData'[c].sample = s /\ clipData'[c].state = "Playing")]_vars

\* The pools of an engine just initialized with props: every slot in its
\* default state, every id 1..capacity free, in order.
FreshPools(props) ==
    /\ availableSampleIds = IdsFrom(1, props.maxSampleCount)
    /\ availableClipIds = IdsFrom(1, props.maxClipCount)
    /\ sampleData = [s \in 0..props.maxSampleCount |-> SampleDataDefault]
    /\ clipData = [c \in 0..props.maxClipCount |-> ClipDataDefault]

\* C36: a Terminate of an engine that Initialize has started leaves the
\* engine uninitialized: the stream is closed and an Initialize called then,
\* on a working device, is accepted; and every Initialize that is accepted
\* starts the stream and yields fresh pools.
C36_TerminateAllowsInitialize ==
    [][/\ (variant = "Audio" /\ Alive /\ stream = "started" /\ Terminate)
          => /\ stream' = "closed"
             /\ InitializeResult("ok")'
       /\ \A props \in EngineProperties :
             (variant = "Audio" /\ Alive /\ InitializeResult("ok")
              /\ InitializeCall(props, "ok"))
             => /\ stream' = "started"
                /\ FreshPools(props)']_vars

\* C37: whenever the render callback is about to produce a frame of a Playing
\* clip bound to a loaded stereo sample, the clip's cursor is even: the left
\* output is fed from an even index and the right output from the odd index
\* that follows.
C37_StereoCursorFrameAligned ==
    (/\ variant = "Audio" /\ Alive
     /\ render.at = "frame"
     /\ Rendered.state = "Playing"
     /\ Rendered.sample \in SampleIds
     /\ RenderedSample.data /\ ~RenderedSample.mono)
    => Rendered.sampleIndex % 2 = 0

\* What a Flush of namespace Audio leaves of the clips that are Playing or
\* Paused and bound, and of the samples.
FlushKeepsLiveClips ==
    /\ \A c \in ClipSlots :
          (clipData[c].state \in {"Playing", "Paused"} /\ clipData[c].sample # NULL)
          => /\ clipData'[c] = clipData[c]
             /\ Occurrences(c, availableClipIds')
                   = Occurrences(c, availableClipIds)
    /\ UNCHANGED <<sampleData, availableSampleIds>>

\* What a Flush of Juke leaves of the clips that are not complete, and of the
\* samples.
JukeFlushKeepsLiveClips ==
    /\ \A c \in JukeClipSlots :
          (playingClips[c] # NULL /\ ~clipHeap[playingClips[c]].complete)
          => /\ playingClips'[c] = playingClips[c]
             /\ clipHeap'[playingClips[c]] = clipHeap[playingClips[c]]
             /\ Occurrences(c, availableClipIds')
                   = Occurrences(c, availableClipIds)
    /\ UNCHANGED <<loadedSamples, sampleHeap, availableSampleIds>>

\* C38: in every state, a Flush called now changes only reclaimable clips:
\* every clip that is Playing or Paused and bound keeps its state, cursor,
\* volume, pan, loop count and binding, its handle is not added to the clip
\* free-list, and the sample pool and the sample free-list stay as they are.
\* The same of Juke's Flush and the clips that are not complete.
C38_FlushChangesOnlyReclaimableClips ==
    /\ (variant = "Audio" /\ Alive) => ~ENABLED (Flush /\ ~FlushKeepsLiveClips)
    /\ (variant = "Juke" /\ Alive)
       => ~ENABLED (Juke_Flush /\ ~JukeFlushKeepsLiveClips)

\* Clip 1 has run to the end of its sample and clip 2, bound to the same
\* loaded sample, is Paused before its end: Flush is about to reclaim the one
\* and must leave the other.
C38_Witness ==
    /\ variant = "Audio" /\ Alive
    /\ clipData[1].state = "Complete"
    /\ clipData[2].state = "Paused" /\ clipData[2].pan = -100
    /\ ReadOk(clipData[2])
    /\ ENABLED (Flush /\ clipData' # clipData)

Spec == SpecAudio
=============================================================================
